---- MODULE Spec2Model ----
(***************************************************************************)
(* A model of the strong_typing codec engine: the serializer factory and   *)
(* its nodes (serializer.py), the deserializer factory and its nodes       *)
(* (deserializer.py), and the type inspection helpers (inspection.py).     *)
(*                                                                         *)
(* Text (str values, identifiers, JSON property names) is a sequence of    *)
(* one-character strings, so that endswith, slicing and concatenation are  *)
(* computed the way the code computes them.                                *)
(***************************************************************************)
EXTENDS Integers, Sequences, FiniteSets, TLC

VARIABLES pc, typ, obj, json, res, idx, tried, heap, cache, threads, first

\* the codec nodes built so far, the two codec caches, the threads that request
\* codecs, and the node each type was first answered with
cachevars == <<heap, cache, threads, first>>

vars == <<pc, typ, obj, json, res, idx, tried, heap, cache, threads, first>>

(***************************************************************************)
(* Bounds of the model.                                                    *)
(***************************************************************************)
MaxInt == 1
MaxLen == 1
MaxBytes == 3
MaxHour == 1

(***************************************************************************)
(* Python and JSON values.  JSON values are the values of kind none, bool, *)
(* int, float, str, list and dict.                                         *)
(***************************************************************************)
PNone == [k |-> "none"]
PBool(b) == [k |-> "bool", b |-> b]
PInt(i) == [k |-> "int", i |-> i]
\* a float holds its value in halves: PFloat(3) is 1.5
PFloat(h) == [k |-> "float", f |-> h]
PStr(s) == [k |-> "str", s |-> s]
PBytes(y) == [k |-> "bytes", y |-> y]
\* wall: the wall-clock hour; aware: has a tzinfo; off: its UTC offset in hours
PDateTime(wall, aware, off) == [k |-> "datetime", wall |-> wall, aware |-> aware, off |-> off]
\* datetime.time: the hour, and the UTC offset in hours of a time with tzinfo
PTime(wall, aware, off) == [k |-> "time", wall |-> wall, aware |-> aware, off |-> off]
PList(l) == [k |-> "list", l |-> l]
PTuple(t) == [k |-> "tuple", t |-> t]
PDict(d) == [k |-> "dict", d |-> d]
PEnum(cls, member) == [k |-> "enum", cls |-> cls, member |-> member]
PObj(cls, fields) == [k |-> "obj", cls |-> cls, fields |-> fields]
\* a set, its members in iteration order
PSet(l) == [k |-> "set", l |-> l]
\* a function defined with def or lambda, a bound method, a module
PFunction == [k |-> "function"]
PMethod == [k |-> "method"]
PModule == [k |-> "module"]
\* a built-in function: dir lists reserved names only
PBuiltin == [k |-> "builtin", attrs |-> << >>]
\* an attribute dir(obj) lists
Attr(name, value) == [name |-> name, value |-> value]
\* a class object: meta is the name of its metaclass, attrs the attributes
\* dir lists but for the reserved names
PClassObj(meta, attrs) == [k |-> "classobj", meta |-> meta, attrs |-> attrs]

\* isinstance(data, X) for the JSON kinds; bool is a subclass of int in Python
IsInstanceBool(v) == v.k = "bool"
\* an integer check that does not take a bool for an int
IsInstanceIntStrict(v) == v.k = "int"

IsInstanceInt(v) == v.k \in {"int", "bool"}
IsInstanceFloat(v) == v.k = "float"
IsInstanceStr(v) == v.k = "str"
IsInstanceList(v) == v.k = "list"
IsInstanceDict(v) == v.k = "dict"

(***************************************************************************)
(* Outcomes of a call: a returned value or a raised exception.             *)
(***************************************************************************)
Ok(v) == [ok |-> TRUE, val |-> v]
Raise(e) == [ok |-> FALSE, exc |-> e]

ShapeClasses == {"JsonKeyError", "JsonTypeError"}
IsShapeError(r) == ~r.ok /\ r.exc.cls \in ShapeClasses

(***************************************************************************)
(* Type descriptors.                                                       *)
(***************************************************************************)
TNone == [kind |-> "NoneType"]
TBool == [kind |-> "bool"]
TInt == [kind |-> "int"]
TFloat == [kind |-> "float"]
TStr == [kind |-> "str"]
TBytes == [kind |-> "bytes"]
TDateTime == [kind |-> "datetime"]
TTime == [kind |-> "time"]
TList(T) == [kind |-> "List", item |-> T]
TTuple(Ts) == [kind |-> "Tuple", items |-> Ts]
TUnion(Ts) == [kind |-> "Union", members |-> Ts]
TDict(K, V) == [kind |-> "Dict", key |-> K, value |-> V]
TOptional(T) == TUnion(<<T, TNone>>)
\* Annotated[T, Alias(alias)]
TAnnotated(T, alias) == [kind |-> "Annotated", arg |-> T, alias |-> alias]
TClass(n) == [kind |-> "class", name |-> n]
\* Literal[v1, ..., vn]
TLiteral(values) == [kind |-> "Literal", values |-> values]
\* the bare, unparameterized container types
TBareList == [kind |-> "list"]
TBareTuple == [kind |-> "tuple"]
TBareDict == [kind |-> "dict"]
TBareSet == [kind |-> "set"]
\* types.FunctionType, types.MethodType, types.ModuleType, type
TFunctionType == [kind |-> "function"]
TMethodType == [kind |-> "method"]
TModuleType == [kind |-> "module"]
TType == [kind |-> "type"]
\* types.BuiltinFunctionType and a metaclass other than type
TBuiltinType == [kind |-> "builtin_function_or_method"]
TMetaclass(n) == [kind |-> "metaclass", name |-> n]

(***************************************************************************)
(* Identifiers and the declared classes.                                   *)
(***************************************************************************)
id_value == <<"v">>
id_a == <<"a">>
id_b == <<"b">>
id_x == <<"x">>
id_u == <<"u">>
id_t == <<"t">>
id_l == <<"l">>
id_in_ == <<"i", "n", "_">>
id_extra == <<"e">>
id_other == <<"o">>

\* keyword.iskeyword
iskeyword(id) == id \in {<<"i", "n">>, <<"i", "s">>, <<"i", "f">>}

MISSING == [dk |-> "MISSING"]
Default(v) == [dk |-> "default", v |-> v]
DefaultFactory(v) == [dk |-> "default_factory", v |-> v]

Field(name, type, default) == [name |-> name, type |-> type, default |-> default]

\* hints: the class has type annotations (typing.get_type_hints is not empty)
Dataclass(fields, frozen) ==
    [ctype |-> "dataclass", fields |-> fields, frozen |-> frozen, hints |-> TRUE]
TypedClass(fields) ==
    [ctype |-> "class", fields |-> fields, frozen |-> FALSE, hints |-> TRUE]
NamedTupleClass(fields) ==
    [ctype |-> "namedtuple", fields |-> fields, frozen |-> FALSE, hints |-> TRUE]
\* collections.namedtuple: field names only
UntypedNamedTupleClass(fields) ==
    [ctype |-> "namedtuple", fields |-> fields, frozen |-> FALSE, hints |-> FALSE]
TUntyped == [kind |-> "untyped"]
Member(name, value) == [name |-> name, value |-> value]
EnumClass(members) == [ctype |-> "enum", members |-> members]

ClassNames ==
    {"Simple", "Opt", "Dflt", "DfltNone", "Fact", "Two", "Kw", "Frozen", "Stamp",
     "A", "B", "HasU", "Nested", "Aliased", "TC", "NT", "NTAlias", "NTOpt", "UT", "Suit", "Side",
     "Mixed"}

ClassDef(n) ==
    CASE n = "Simple" -> Dataclass(<<Field(id_value, TInt, MISSING)>>, FALSE)
      [] n = "Opt" -> Dataclass(<<Field(id_value, TOptional(TInt), MISSING)>>, FALSE)
      [] n = "Dflt" -> Dataclass(<<Field(id_x, TOptional(TInt), Default(PInt(1)))>>, FALSE)
      [] n = "DfltNone" -> Dataclass(<<Field(id_a, TInt, MISSING),
                                       Field(id_x, TOptional(TStr), Default(PNone))>>, FALSE)
      [] n = "Fact" -> Dataclass(<<Field(id_l, TList(TInt), DefaultFactory(PList(<< >>)))>>, FALSE)
      [] n = "Two" -> Dataclass(<<Field(id_a, TInt, MISSING), Field(id_b, TStr, MISSING)>>, FALSE)
      [] n = "Kw" -> Dataclass(<<Field(id_in_, TInt, MISSING)>>, FALSE)
      [] n = "Frozen" -> Dataclass(<<Field(id_value, TInt, MISSING)>>, TRUE)
      [] n = "Stamp" -> Dataclass(<<Field(id_t, TDateTime, MISSING)>>, FALSE)
      [] n = "A" -> Dataclass(<<Field(id_value, TInt, MISSING)>>, FALSE)
      [] n = "B" -> Dataclass(<<Field(id_value, TInt, MISSING)>>, FALSE)
      [] n = "HasU" -> Dataclass(<<Field(id_u, TUnion(<<TClass("A"), TClass("B")>>), MISSING)>>, FALSE)
      [] n = "Nested" -> Dataclass(<<Field(id_l, TList(TClass("Opt")), MISSING)>>, FALSE)
      [] n = "Aliased" ->
            Dataclass(<<Field(id_a, TAnnotated(TOptional(TInt), id_in_), MISSING)>>, FALSE)
      [] n = "TC" -> TypedClass(<<Field(id_a, TInt, MISSING), Field(id_b, TOptional(TStr), MISSING)>>)
      [] n = "NT" -> NamedTupleClass(<<Field(id_a, TInt, MISSING), Field(id_b, TStr, MISSING)>>)
      [] n = "NTAlias" -> NamedTupleClass(<<Field(id_a, TAnnotated(TInt, id_x), MISSING)>>)
      [] n = "NTOpt" -> NamedTupleClass(<<Field(id_x, TOptional(TInt), Default(PNone))>>)
      [] n = "UT" -> UntypedNamedTupleClass(<<Field(id_a, TUntyped, MISSING),
                                               Field(id_b, TUntyped, MISSING)>>)
      [] n = "Suit" -> EnumClass(<<Member("Diamonds", PInt(0)), Member("Hearts", PInt(1))>>)
      [] n = "Side" -> EnumClass(<<Member("LEFT", PStr(<<"L">>)), Member("RIGHT", PStr(<<"R">>))>>)
      [] n = "Mixed" -> EnumClass(<<Member("TEXT", PStr(<<"a">>)), Member("ONE", PInt(1))>>)
      \* a record that refers to itself: next: Optional["Tree"]
      [] n = "Tree" -> Dataclass(<<Field(id_value, TInt, MISSING),
                                   Field(id_x, TOptional(TClass("Tree")), MISSING)>>, FALSE)
      \* classes that define to_json and from_json: an enumeration, a named
      \* tuple, a data class and a class with annotations
      [] n = "CE" -> EnumClass(<<Member("ONE", PInt(1))>>)
      [] n = "CNT" -> NamedTupleClass(<<Field(id_a, TInt, MISSING)>>)
      [] n = "CD" -> Dataclass(<<Field(id_a, TInt, MISSING)>>, FALSE)
      [] n = "CT" -> TypedClass(<<Field(id_a, TInt, MISSING)>>)
      \* a: Annotated[int, Alias("b")] next to b: int
      [] n = "Clash" -> Dataclass(<<Field(id_a, TAnnotated(TInt, id_b), MISSING),
                                    Field(id_b, TInt, MISSING)>>, FALSE)

\* the classes that define the methods to_json and from_json
HookClasses == {"CE", "CNT", "CD", "CT"}

\* callable(getattr(typ, hook, None))
HasHook(T, hook) == T.kind = "class" /\ T.name \in HookClasses /\ hook \in {"to_json", "from_json"}

\* the bound hook of the class, and the value a call of it returns
Converter(T, hook) == [cls |-> T.name, hook |-> hook]
Call(converter, arg) == [k |-> "returned", by |-> converter, arg |-> arg]

(***************************************************************************)
(* inspection.py                                                           *)
(***************************************************************************)
is_type_annotated(T) == T.kind = "Annotated"

unwrap_annotated_type(T) == IF is_type_annotated(T) THEN T.arg ELSE T

is_union_like(T) == T.kind = "Union"

Range(s) == {s[i] : i \in DOMAIN s}

is_type_optional(T) ==
    LET t == unwrap_annotated_type(T)
    IN  is_union_like(t) /\ TNone \in Range(t.members)

RECURSIVE FilterNotNone(_)
FilterNotNone(Ts) ==
    IF Ts = << >> THEN << >>
    ELSE IF Head(Ts) = TNone THEN FilterNotNone(Tail(Ts))
         ELSE <<Head(Ts)>> \o FilterNotNone(Tail(Ts))

\* Union[T] is T
unwrap_optional_inner(T) ==
    LET rest == FilterNotNone(T.members)
    IN  IF Len(rest) = 1 THEN rest[1] ELSE TUnion(rest)

\* rewrap_annotated_type(_unwrap_optional_type, typ)
unwrap_optional_type(T) ==
    IF is_type_annotated(T)
    THEN TAnnotated(unwrap_optional_inner(T.arg), T.alias)
    ELSE unwrap_optional_inner(T)

IsClassType(T) == T.kind = "class"

is_dataclass_type(T) ==
    LET t == unwrap_annotated_type(T)
    IN  IsClassType(t) /\ ClassDef(t.name).ctype = "dataclass"

is_named_tuple_type(T) ==
    LET t == unwrap_annotated_type(T)
    IN  IsClassType(t) /\ ClassDef(t.name).ctype = "namedtuple"

is_type_enum(T) ==
    LET t == unwrap_annotated_type(T)
    IN  IsClassType(t) /\ ClassDef(t.name).ctype = "enum"

get_resolved_hints(T) ==
    IF ClassDef(T.name).hints THEN ClassDef(T.name).fields ELSE << >>

\* the (field name, field type) pairs of the class, in declaration order
get_class_properties(T) ==
    IF is_dataclass_type(T) THEN ClassDef(T.name).fields ELSE get_resolved_hints(T)

\* get_annotation(python_type, Alias): << >> stands for None
get_annotation(T) == IF is_type_annotated(T) THEN T.alias ELSE << >>

(***************************************************************************)
(* Text helpers.                                                           *)
(***************************************************************************)
EndsWith(s, suffix) ==
    Len(s) >= Len(suffix) /\ SubSeq(s, Len(s) - Len(suffix) + 1, Len(s)) = suffix

DropLast(s, n) == SubSeq(s, 1, Len(s) - n)

(***************************************************************************)
(* The JSON property name of a field: python_id_to_json_field of           *)
(* serialization.py and python_field_to_json_property of mapping.py.       *)
(***************************************************************************)
python_id_to_json_field(python_id, python_type) ==
    IF get_annotation(python_type) # << >>
    THEN get_annotation(python_type)
    ELSE IF EndsWith(python_id, <<"_">>) /\ iskeyword(DropLast(python_id, 1))
         THEN DropLast(python_id, 1)
         ELSE python_id

\* mapping.py: the alias annotation if there is one, else the identifier
python_field_to_json_property(python_id, python_type) ==
    IF get_annotation(python_type) # << >>
    THEN get_annotation(python_type)
    ELSE python_id

(***************************************************************************)
(* datetime.isoformat and datetime.fromisoformat.  The model's timestamps  *)
(* share one calendar date and one minute:second; the hour and the UTC     *)
(* offset (whole hours) vary.                                              *)
(***************************************************************************)
Digits == <<"0", "1", "2", "3", "4", "5", "6", "7", "8", "9">>
IsDigit(c) == c \in Range(Digits)
DigitVal(c) == (CHOOSE i \in 1..10 : Digits[i] = c) - 1
TwoDigits(n) == <<Digits[(n \div 10) + 1], Digits[(n % 10) + 1]>>
Abs(n) == IF n < 0 THEN 0 - n ELSE n

DatePrefix == <<"1", "9", "8", "9", "-", "1", "0", "-", "2", "3", "T">>
MinSec == <<":", "4", "5", ":", "5", "0">>
UtcSuffix == <<"+", "0", "0", ":", "0", "0">>

OffsetText(off) ==
    (IF off < 0 THEN <<"-">> ELSE <<"+">>) \o TwoDigits(Abs(off)) \o <<":", "0", "0">>

isoformat(dt) ==
    DatePrefix \o TwoDigits(dt.wall) \o MinSec
        \o (IF dt.aware THEN OffsetText(dt.off) ELSE << >>)

IsoOffsetOk(rest) ==
    /\ Len(rest) = 6
    /\ rest[1] \in {"+", "-"}
    /\ IsDigit(rest[2]) /\ IsDigit(rest[3])
    /\ SubSeq(rest, 4, 6) = <<":", "0", "0">>

IsoOffset(rest) ==
    LET n == DigitVal(rest[2]) * 10 + DigitVal(rest[3])
    IN  IF rest[1] = "-" THEN 0 - n ELSE n

\* datetime.datetime.fromisoformat: ValueError for text that is not ISO 8601
fromisoformat(text) ==
    IF /\ Len(text) >= 19
       /\ SubSeq(text, 1, 11) = DatePrefix
       /\ IsDigit(text[12]) /\ IsDigit(text[13])
       /\ DigitVal(text[12]) * 10 + DigitVal(text[13]) < 24
       /\ SubSeq(text, 14, 19) = MinSec
    THEN LET wall == DigitVal(text[12]) * 10 + DigitVal(text[13])
             rest == SubSeq(text, 20, Len(text))
         IN  IF rest = << >> THEN Ok(PDateTime(wall, FALSE, 0))
             ELSE IF IsoOffsetOk(rest) THEN Ok(PDateTime(wall, TRUE, IsoOffset(rest)))
             ELSE Raise([cls |-> "ValueError", what |-> "isoformat"])
    ELSE Raise([cls |-> "ValueError", what |-> "isoformat"])

\* datetime.time.isoformat
time_isoformat(t) ==
    TwoDigits(t.wall) \o MinSec \o (IF t.aware THEN OffsetText(t.off) ELSE << >>)

\* datetime.time.fromisoformat of Python 3.11: a final Z is read as UTC
time_fromisoformat(text) ==
    IF /\ Len(text) >= 8
       /\ IsDigit(text[1]) /\ IsDigit(text[2])
       /\ DigitVal(text[1]) * 10 + DigitVal(text[2]) < 24
       /\ SubSeq(text, 3, 8) = MinSec
    THEN LET wall == DigitVal(text[1]) * 10 + DigitVal(text[2])
             rest == SubSeq(text, 9, Len(text))
         IN  IF rest = << >> THEN Ok(PTime(wall, FALSE, 0))
             ELSE IF rest = <<"Z">> THEN Ok(PTime(wall, TRUE, 0))
             ELSE IF IsoOffsetOk(rest) THEN Ok(PTime(wall, TRUE, IsoOffset(rest)))
             ELSE Raise([cls |-> "ValueError", what |-> "isoformat"])
    ELSE Raise([cls |-> "ValueError", what |-> "isoformat"])

(***************************************************************************)
(* base64.b64encode and base64.b64decode(validate=True).                   *)
(***************************************************************************)
B64Alphabet ==
    <<"A", "B", "C", "D", "E", "F", "G", "H", "I", "J", "K", "L", "M",
      "N", "O", "P", "Q", "R", "S", "T", "U", "V", "W", "X", "Y", "Z",
      "a", "b", "c", "d", "e", "f", "g", "h", "i", "j", "k", "l", "m",
      "n", "o", "p", "q", "r", "s", "t", "u", "v", "w", "x", "y", "z",
      "0", "1", "2", "3", "4", "5", "6", "7", "8", "9", "+", "/">>
B64Pad == "="
B64Char(n) == B64Alphabet[n + 1]
IsB64Char(c) == c \in Range(B64Alphabet)
B64Val(c) == (CHOOSE i \in DOMAIN B64Alphabet : B64Alphabet[i] = c) - 1

\* the 24-bit group of three bytes as four characters
B64Quad(n) ==
    <<B64Char(n \div 262144), B64Char((n \div 4096) % 64),
      B64Char((n \div 64) % 64), B64Char(n % 64)>>

RECURSIVE b64encode(_)
b64encode(y) ==
    IF Len(y) = 0 THEN << >>
    ELSE IF Len(y) = 1
         THEN SubSeq(B64Quad(y[1] * 65536), 1, 2) \o <<B64Pad, B64Pad>>
    ELSE IF Len(y) = 2
         THEN SubSeq(B64Quad(y[1] * 65536 + y[2] * 256), 1, 3) \o <<B64Pad>>
    ELSE B64Quad(y[1] * 65536 + y[2] * 256 + y[3]) \o b64encode(SubSeq(y, 4, Len(y)))

B64Error == Raise([cls |-> "binascii.Error", what |-> "base64"])

\* binascii.a2b_base64(s, strict_mode=True): one character per step.
\* quad: position in the current group of four; pads: padding characters seen
\* in this group; started: a padding character was seen; acc: left-over bits
RECURSIVE a2b_base64(_, _, _, _, _, _, _)
a2b_base64(s, i, quad, pads, started, acc, out) ==
    IF i > Len(s) THEN (IF quad # 0 THEN B64Error ELSE Ok(PBytes(out)))
    ELSE IF s[i] = B64Pad
    THEN IF quad = 0 /\ i = 1 THEN B64Error
         ELSE IF quad >= 2
              THEN IF quad + pads + 1 >= 4
                   THEN (IF i + 1 <= Len(s) THEN B64Error ELSE Ok(PBytes(out)))
                   ELSE a2b_base64(s, i + 1, quad, pads + 1, TRUE, acc, out)
              ELSE a2b_base64(s, i + 1, quad, pads, TRUE, acc, out)
    ELSE IF ~IsB64Char(s[i]) THEN B64Error
    ELSE IF started THEN B64Error
    ELSE LET v == B64Val(s[i])
         IN  CASE quad = 0 -> a2b_base64(s, i + 1, 1, 0, started, v, out)
               [] quad = 1 ->
                    a2b_base64(s, i + 1, 2, 0, started, v % 16,
                               Append(out, (acc * 4 + v \div 16) % 256))
               [] quad = 2 ->
                    a2b_base64(s, i + 1, 3, 0, started, v % 4,
                               Append(out, (acc * 16 + v \div 4) % 256))
               [] quad = 3 ->
                    a2b_base64(s, i + 1, 0, 0, started, 0,
                               Append(out, (acc * 64 + v) % 256))

b64decode(s) == a2b_base64(s, 1, 0, 0, FALSE, 0, << >>)

(***************************************************************************)
(* serializer.py: the serializer factory.  A serializer node is a record   *)
(* whose field node names its class.                                       *)
(***************************************************************************)
Node(n) == [node |-> n]
FieldSerializer(field_name, property_name, generator) ==
    [field_name |-> field_name, property_name |-> property_name, generator |-> generator]

\* type(obj)
TypeOf(v) ==
    CASE v.k = "none" -> TNone
      [] v.k = "bool" -> TBool
      [] v.k = "int" -> TInt
      [] v.k = "float" -> TFloat
      [] v.k = "str" -> TStr
      [] v.k = "bytes" -> TBytes
      [] v.k = "datetime" -> TDateTime
      [] v.k = "time" -> TTime
      [] v.k = "list" -> TBareList
      [] v.k = "tuple" -> TBareTuple
      [] v.k = "dict" -> TBareDict
      [] v.k \in {"enum", "obj"} -> TClass(v.cls)
      [] v.k = "set" -> TBareSet
      [] v.k = "function" -> TFunctionType
      [] v.k = "method" -> TMethodType
      [] v.k = "module" -> TModuleType
      [] v.k = "builtin" -> TBuiltinType
      [] v.k = "classobj" -> IF v.meta = "type" THEN TType ELSE TMetaclass(v.meta)

\* list(dict.fromkeys(...)): the first occurrences, in order
RECURSIVE Unique(_)
Unique(q) ==
    IF q = << >> THEN << >>
    ELSE LET rest == Unique(DropLast(q, 1))
         IN  IF q[Len(q)] \in Range(rest) THEN rest ELSE Append(rest, q[Len(q)])

\* inspection.py: the types of the member values of the enumeration
MemberTypes(members) == [i \in DOMAIN members |-> TypeOf(members[i].value)]

enum_value_types(enum_type) == Unique(MemberTypes(ClassDef(enum_type.name).members))

\* the type is a class: issubclass accepts it as its first argument
IsClass(T) == T.kind \notin {"List", "Tuple", "Union", "Dict", "Annotated", "Literal"}

IssubclassTypeError == Raise([cls |-> "TypeError", what |-> "issubclass() arg 1 must be a class"])

\* typing.get_type_hints of what is no module, class, method or function
GetTypeHintsTypeError ==
    Raise([cls |-> "TypeError", what |-> "is not a module, class, method, or function"])

InvalidKeyType(what) == Raise([cls |-> "JsonTypeError", what |-> what])

\* TypedEnumDictSerializer.__init__ after super().__init__: None stands for no
\* exception
StringValued(value_types) ==
    IF Len(value_types) # 1
    THEN InvalidKeyType("invalid key type, several value types")
    ELSE IF value_types[1] # TStr
    THEN InvalidKeyType("invalid enumeration key type")
    ELSE Ok(PNone)

EnumKeyCheck(key_type) == StringValued(enum_value_types(key_type))

\* the first failure: r if it failed, else what follows it
Then(r, next) == IF ~r.ok THEN r ELSE next

\* the dict branch of _create_serializer, given the serializer of the values
DictSerializer(T, generator) ==
    IF T.key = TStr
    THEN IF ~generator.ok THEN generator
         ELSE Ok([node |-> "TypedStringDictSerializer", generator |-> generator.val])
    ELSE IF ~IsClass(T.key) THEN IssubclassTypeError
    ELSE IF is_type_enum(T.key)
    THEN IF ~generator.ok THEN generator
         ELSE Then(EnumKeyCheck(T.key),
                   Ok([node |-> "TypedEnumDictSerializer", generator |-> generator.val]))
    ELSE GetTypeHintsTypeError

EnumValue(cls, member) ==
    (CHOOSE m \in Range(ClassDef(cls).members) : m.name = member).value

Put(d, key, v) == [x \in (DOMAIN d) \cup {key} |-> IF x = key THEN v ELSE d[x]]

\* fail early if caller passes an object with an exotic type
ExoticTypeError(T) ==
    Raise([cls |-> "TypeError", what |-> "cannot be represented in JSON", type |-> T])

\* tuple(type(value) for value in values)
literal_type_tuple(values) == [i \in DOMAIN values |-> TypeOf(values[i])]

\* LiteralSerializer.__init__, given the serializer of the type of the values
LiteralSerializer(literal_types, generator) ==
    IF Len(literal_types) # 1
    THEN Raise([cls |-> "TypeError", what |-> "expects consistent literal value types"])
    ELSE IF ~generator.ok THEN generator
    ELSE Ok([node |-> "LiteralSerializer", generator |-> generator.val])

RECURSIVE CreateSerializer(_), FieldSerializers(_), ItemSerializers(_)

\* the property_generators of TypedClassSerializer.__init__
FieldSerializers(props) ==
    IF props = << >> THEN Ok(<< >>)
    ELSE LET p == Head(props)
             g == CreateSerializer(p.type)
             rest == FieldSerializers(Tail(props))
         IN  IF ~g.ok THEN g
             ELSE IF ~rest.ok THEN rest
             ELSE Ok(<<FieldSerializer(p.name,
                                       python_field_to_json_property(p.name, p.type),
                                       g.val)>> \o rest.val)

\* the item_generators of TypedTupleSerializer.__init__
ItemSerializers(Ts) ==
    IF Ts = << >> THEN Ok(<< >>)
    ELSE LET g == CreateSerializer(Head(Ts))
             rest == ItemSerializers(Tail(Ts))
         IN  IF ~g.ok THEN g
             ELSE IF ~rest.ok THEN rest
             ELSE Ok(<<g.val>> \o rest.val)

ClassNode(name, pg) ==
    IF ~pg.ok THEN pg ELSE Ok([node |-> name, property_generators |-> pg.val])

ClassSerializer(name, T) == ClassNode(name, FieldSerializers(get_class_properties(T)))

\* create_serializer / _create_serializer
CreateSerializer(T) ==
    CASE T.kind = "NoneType" -> Ok(Node("NoneSerializer"))
      [] T.kind = "bool" -> Ok(Node("BoolSerializer"))
      [] T.kind = "int" -> Ok(Node("IntSerializer"))
      [] T.kind = "float" -> Ok(Node("FloatSerializer"))
      [] T.kind = "str" -> Ok(Node("StringSerializer"))
      [] T.kind = "bytes" -> Ok(Node("BytesSerializer"))
      [] T.kind = "datetime" -> Ok(Node("DateTimeSerializer"))
      [] T.kind = "time" -> Ok(Node("TimeSerializer"))
      [] T.kind = "list" -> Ok(Node("UntypedListSerializer"))
      [] T.kind = "dict" -> Ok(Node("UntypedDictSerializer"))
      [] T.kind = "set" -> Ok(Node("UntypedSetSerializer"))
      [] T.kind = "tuple" -> Ok(Node("UntypedTupleSerializer"))
      [] T.kind = "List" ->
            LET g == CreateSerializer(T.item)
            IN  IF ~g.ok THEN g
                ELSE Ok([node |-> "TypedListSerializer", generator |-> g.val])
      [] T.kind = "Tuple" ->
            LET gs == ItemSerializers(T.items)
            IN  IF ~gs.ok THEN gs
                ELSE Ok([node |-> "TypedTupleSerializer", item_generators |-> gs.val])
      [] T.kind = "Union" -> Ok(Node("UnionSerializer"))
      [] T.kind = "Dict" -> DictSerializer(T, CreateSerializer(T.value))
      [] T.kind = "Literal" ->
            LiteralSerializer(Unique(literal_type_tuple(T.values)),
                              CreateSerializer(TypeOf(T.values[1])))
      [] T.kind = "Annotated" -> CreateSerializer(unwrap_annotated_type(T))
      [] T.kind = "class" ->
            IF HasHook(T, "to_json")
            THEN Ok([node |-> "CustomSerializer", converter |-> Converter(T, "to_json")])
            ELSE IF is_type_enum(T) THEN Ok(Node("EnumSerializer"))
            ELSE IF is_dataclass_type(T) THEN ClassSerializer("DataclassSerializer", T)
            ELSE IF is_named_tuple_type(T)
                 THEN IF ClassDef(T.name).hints
                      THEN ClassSerializer("TypedNamedTupleSerializer", T)
                      ELSE Ok([node |-> "UntypedNamedTupleSerializer",
                               fields |-> [i \in DOMAIN ClassDef(T.name).fields |->
                                   [field_name |-> ClassDef(T.name).fields[i].name,
                                    property_name |->
                                        python_field_to_json_property(
                                            ClassDef(T.name).fields[i].name, TUntyped)]]])
            ELSE IF get_resolved_hints(T) # << >>
                 THEN ClassSerializer("TypedClassSerializer", T)
            ELSE Ok(Node("UntypedClassSerializer"))
      [] T.kind \in {"function", "module", "type", "method"} -> ExoticTypeError(T)
      \* no type hints: get_resolved_hints(typ) is empty
      [] T.kind \in {"builtin_function_or_method", "metaclass"} ->
            Ok(Node("UntypedClassSerializer"))

\* the outcome of a comprehension: the first failure, or the items collected
Collect(r, rest) ==
    IF ~r.ok THEN r ELSE IF ~rest.ok THEN rest ELSE Ok(<<r.val>> \o rest.val)

\* the list made of the collected items
AsList(r) == IF ~r.ok THEN r ELSE Ok(PList(r.val))

\* object_dict[property_name] = <generated value>, unless generating failed
Store(object_dict, property_name, r) ==
    IF ~r.ok THEN r ELSE Ok(Put(object_dict, property_name, r.val))

RECURSIVE Generate(_, _), GenerateWith(_, _), object_to_json(_), GenerateItems(_, _),
          GenerateZip(_, _),
          GenerateUntyped(_), GenerateFields(_, _, _, _), GenerateUntypedFields(_, _, _, _),
          GenerateAttrs(_, _, _), GenerateEntries(_, _, _, _)

\* [generator.generate(item) for item in obj]
GenerateItems(generator, items) ==
    IF items = << >> THEN Ok(<< >>)
    ELSE Collect(Generate(generator, Head(items)), GenerateItems(generator, Tail(items)))

\* [g.generate(item) for g, item in zip(item_generators, obj)]
GenerateZip(generators, items) ==
    IF generators = << >> \/ items = << >> THEN Ok(<< >>)
    ELSE Collect(Generate(Head(generators), Head(items)),
                 GenerateZip(Tail(generators), Tail(items)))

\* [object_to_json(item) for item in obj]
GenerateUntyped(items) ==
    IF items = << >> THEN Ok(<< >>)
    ELSE Collect(object_to_json(Head(items)), GenerateUntyped(Tail(items)))

\* FieldSerializer.generate_field: a None value leaves object_dict as it is
generate_field(pg, o, object_dict) ==
    IF o.fields[pg.field_name] # PNone
    THEN Store(object_dict, pg.property_name,
               Generate(pg.generator, o.fields[pg.field_name]))
    ELSE Ok(object_dict)

\* the remaining fields, once field i has been generated into object_dict
NextField(step, pgs, o, i) ==
    IF ~step.ok THEN step ELSE GenerateFields(pgs, o, i + 1, step.val)

\* TypedClassSerializer.generate
GenerateFields(pgs, o, i, object_dict) ==
    IF i > Len(pgs) THEN Ok(PDict(object_dict))
    ELSE NextField(generate_field(pgs[i], o, object_dict), pgs, o, i)

NextUntypedField(step, fields, o, i) ==
    IF ~step.ok THEN step ELSE GenerateUntypedFields(fields, o, i + 1, step.val)

\* UntypedNamedTupleSerializer.generate
GenerateUntypedFields(fields, o, i, object_dict) ==
    IF i > Len(fields) THEN Ok(PDict(object_dict))
    ELSE NextUntypedField(Store(object_dict, fields[i].property_name,
                                object_to_json(o.fields[fields[i].field_name])),
                          fields, o, i)

\* the JSON key of a dictionary key: key, or key.value for an enumeration
KeyText(g, key) ==
    IF g.node = "TypedEnumDictSerializer" THEN EnumValue(key.cls, key.member).s ELSE key

NextEntry(step, g, d, todo) ==
    IF ~step.ok THEN step ELSE GenerateEntries(g, d, todo, step.val)

\* TypedStringDictSerializer.generate and TypedEnumDictSerializer.generate:
\* todo holds the keys still to be written
GenerateEntries(g, d, todo, object_dict) ==
    IF todo = {} THEN Ok(PDict(object_dict))
    ELSE NextEntry(Store(object_dict, KeyText(g, CHOOSE key \in todo : TRUE),
                         Generate(g.generator, d[CHOOSE key \in todo : TRUE])),
                   g, d, todo \ {CHOOSE key \in todo : TRUE})

NextAttr(step, attrs, i) ==
    IF ~step.ok THEN step ELSE GenerateAttrs(attrs, i + 1, step.val)

\* UntypedClassSerializer.generate: the attributes that are not None and not
\* bound methods
GenerateAttrs(attrs, i, object_dict) ==
    IF i > Len(attrs) THEN Ok(PDict(object_dict))
    ELSE IF attrs[i].value = PNone \/ attrs[i].value = PMethod
    THEN GenerateAttrs(attrs, i + 1, object_dict)
    ELSE NextAttr(Store(object_dict, python_field_to_json_property(attrs[i].name, TUntyped),
                        object_to_json(attrs[i].value)),
                  attrs, i)

\* DateTimeSerializer.generate without the replacement of +00:00 by Z
DateTimeGenerateOffset(v) ==
    IF ~v.aware
    THEN Raise([cls |-> "JsonValueError", what |-> "timestamp lacks explicit time zone designator"])
    ELSE Ok(PStr(isoformat(v)))

DateTimeGenerate(v) ==
    IF ~v.aware
    THEN Raise([cls |-> "JsonValueError", what |-> "timestamp lacks explicit time zone designator"])
    ELSE LET fmt == isoformat(v)
         IN  IF EndsWith(fmt, UtcSuffix)
             THEN Ok(PStr(DropLast(fmt, 6) \o <<"Z">>))
             ELSE Ok(PStr(fmt))

BytesGenerate(v) == Ok(PStr(b64encode(v.y)))

\* the items of a list, set or tuple, in iteration order
ItemsOf(v) == IF v.k = "tuple" THEN v.t ELSE v.l

\* generator.generate(obj), unless the construction of the generator failed
GenerateWith(g, v) == IF ~g.ok THEN g ELSE Generate(g.val, v)

\* Serializer.generate of the node
Generate(g, v) ==
    CASE g.node = "NoneSerializer" -> Ok(PNone)
      [] g.node \in {"BoolSerializer", "IntSerializer", "FloatSerializer",
                     "StringSerializer"} -> Ok(v)
      [] g.node = "BytesSerializer" -> BytesGenerate(v)
      [] g.node = "DateTimeSerializer" -> DateTimeGenerate(v)
      [] g.node = "TimeSerializer" -> Ok(PStr(time_isoformat(v)))
      [] g.node = "EnumSerializer" -> Ok(EnumValue(v.cls, v.member))
      [] g.node = "CustomSerializer" -> Ok(Call(g.converter, v))
      [] g.node \in {"UntypedListSerializer", "UntypedTupleSerializer",
                     "UntypedSetSerializer"} ->
            AsList(GenerateUntyped(ItemsOf(v)))
      [] g.node \in {"TypedStringDictSerializer", "TypedEnumDictSerializer"} ->
            GenerateEntries(g, v.d, DOMAIN v.d, << >>)
      [] g.node = "UntypedClassSerializer" ->
            GenerateAttrs(v.attrs, 1, << >>)
      [] g.node = "TypedListSerializer" ->
            AsList(GenerateItems(g.generator, v.l))
      [] g.node = "TypedTupleSerializer" ->
            AsList(GenerateZip(g.item_generators, v.t))
      [] g.node = "UnionSerializer" -> object_to_json(v)
      [] g.node = "LiteralSerializer" -> Generate(g.generator, v)
      [] g.node \in {"DataclassSerializer", "TypedNamedTupleSerializer",
                     "TypedClassSerializer"} ->
            GenerateFields(g.property_generators, v, 1, << >>)
      [] g.node = "UntypedNamedTupleSerializer" ->
            GenerateUntypedFields(g.fields, v, 1, << >>)

\* serializer.py object_to_json: dispatch on the runtime type of the value
object_to_json(v) == GenerateWith(CreateSerializer(TypeOf(v)), v)

(***************************************************************************)
(* Python equality (==) of values.                                         *)
(***************************************************************************)
IsNum(v) == v.k \in {"bool", "int", "float"}
\* the numeric value, in halves
Num(v) ==
    CASE v.k = "bool" -> (IF v.b THEN 2 ELSE 0)
      [] v.k = "int" -> 2 * v.i
      [] v.k = "float" -> v.f

FieldsIn(fields, o) == [i \in DOMAIN fields |-> o.fields[fields[i].name]]

FieldTuple(o) == FieldsIn(ClassDef(o.cls).fields, o)

\* a data class compares the class and the fields; a named tuple compares as a
\* tuple
SameClass(ctype, other, a, b) == ctype = other /\ (ctype = "namedtuple" \/ a.cls = b.cls)

RECURSIVE PyEq(_, _), SeqEq(_, _)

SeqEq(x, y) == Len(x) = Len(y) /\ \A i \in DOMAIN x : PyEq(x[i], y[i])

PyEq(a, b) ==
    IF IsNum(a) /\ IsNum(b) THEN Num(a) = Num(b)
    ELSE IF a.k # b.k THEN FALSE
    ELSE CASE a.k = "list" -> SeqEq(a.l, b.l)
           [] a.k = "tuple" -> SeqEq(a.t, b.t)
           [] a.k = "dict" ->
                DOMAIN a.d = DOMAIN b.d /\ \A x \in DOMAIN a.d : PyEq(a.d[x], b.d[x])
           [] a.k = "datetime" ->
                IF a.aware /\ b.aware THEN a.wall - a.off = b.wall - b.off
                ELSE IF ~a.aware /\ ~b.aware THEN a.wall = b.wall
                ELSE FALSE
           [] a.k = "obj" ->
                /\ SameClass(ClassDef(a.cls).ctype, ClassDef(b.cls).ctype, a, b)
                /\ SeqEq(FieldTuple(a), FieldTuple(b))
           [] OTHER -> a = b

(***************************************************************************)
(* deserializer.py: the deserializer factory and its nodes.                *)
(***************************************************************************)
JsonTypeError(expected, data) ==
    Raise([cls |-> "JsonTypeError", what |-> "expects", expected |-> expected, data |-> data])

RequiredFieldDeserializer(property_name, field_name, parser) ==
    [fp |-> "RequiredFieldDeserializer", property_name |-> property_name,
     field_name |-> field_name, parser |-> parser]
OptionalFieldDeserializer(property_name, field_name, parser) ==
    [fp |-> "OptionalFieldDeserializer", property_name |-> property_name,
     field_name |-> field_name, parser |-> parser]
DefaultFieldDeserializer(property_name, field_name, parser, default_value) ==
    [fp |-> "DefaultFieldDeserializer", property_name |-> property_name,
     field_name |-> field_name, parser |-> parser, default_value |-> default_value]
DefaultFactoryFieldDeserializer(property_name, field_name, parser, default_factory) ==
    [fp |-> "DefaultFactoryFieldDeserializer", property_name |-> property_name,
     field_name |-> field_name, parser |-> parser, default_factory |-> default_factory]

RECURSIVE CreateDeserializer(_), ItemDeserializers(_), NamedTupleFields(_),
          DataclassFields(_), TypedClassFields(_)

\* tuple(create_deserializer(t) for t in types)
ItemDeserializers(Ts) ==
    IF Ts = << >> THEN Ok(<< >>)
    ELSE LET p == CreateDeserializer(Head(Ts))
             rest == ItemDeserializers(Tail(Ts))
         IN  IF ~p.ok THEN p ELSE IF ~rest.ok THEN rest ELSE Ok(<<p.val>> \o rest.val)

\* NamedTupleDeserializer.__init__
NamedTupleFields(hints) ==
    IF hints = << >> THEN Ok(<< >>)
    ELSE LET f == Head(hints)
             p == CreateDeserializer(f.type)
             rest == NamedTupleFields(Tail(hints))
         IN  IF ~p.ok THEN p
             ELSE IF ~rest.ok THEN rest
             ELSE Ok(<<RequiredFieldDeserializer(f.name, f.name, p.val)>> \o rest.val)

\* DataclassField with the optional test ahead of the default tests
DataclassFieldOptionalFirst(field, parser) ==
    LET property_name == python_field_to_json_property(field.name, field.type)
    IN  IF is_type_optional(field.type)
        THEN OptionalFieldDeserializer(property_name, field.name, parser)
        ELSE IF field.default.dk = "default"
        THEN DefaultFieldDeserializer(property_name, field.name, parser, field.default.v)
        ELSE IF field.default.dk = "default_factory"
        THEN DefaultFactoryFieldDeserializer(property_name, field.name, parser, field.default.v)
        ELSE RequiredFieldDeserializer(property_name, field.name, parser)

DataclassField(field, parser) ==
    LET property_name == python_field_to_json_property(field.name, field.type)
        is_optional == is_type_optional(field.type)
        has_default == field.default.dk = "default"
        has_default_factory == field.default.dk = "default_factory"
    IN  IF has_default
        THEN DefaultFieldDeserializer(property_name, field.name, parser, field.default.v)
        ELSE IF has_default_factory
        THEN DefaultFactoryFieldDeserializer(property_name, field.name, parser, field.default.v)
        ELSE IF is_optional
        THEN OptionalFieldDeserializer(property_name, field.name, parser)
        ELSE RequiredFieldDeserializer(property_name, field.name, parser)

RequiredType(field_type) ==
    IF is_type_optional(field_type) THEN unwrap_optional_type(field_type) ELSE field_type

\* DataclassDeserializer.__init__
DataclassFields(fields) ==
    IF fields = << >> THEN Ok(<< >>)
    ELSE LET f == Head(fields)
             p == CreateDeserializer(RequiredType(f.type))
             rest == DataclassFields(Tail(fields))
         IN  IF ~p.ok THEN p
             ELSE IF ~rest.ok THEN rest
             ELSE Ok(<<DataclassField(f, p.val)>> \o rest.val)

TypedClassField(field, parser) ==
    LET property_name == python_field_to_json_property(field.name, field.type)
    IN  IF is_type_optional(field.type)
        THEN OptionalFieldDeserializer(property_name, field.name, parser)
        ELSE RequiredFieldDeserializer(property_name, field.name, parser)

\* TypedClassDeserializer.__init__
TypedClassFields(hints) ==
    IF hints = << >> THEN Ok(<< >>)
    ELSE LET f == Head(hints)
             p == CreateDeserializer(RequiredType(f.type))
             rest == TypedClassFields(Tail(hints))
         IN  IF ~p.ok THEN p
             ELSE IF ~rest.ok THEN rest
             ELSE Ok(<<TypedClassField(f, p.val)>> \o rest.val)

ClassDeserializer(name, T, pp) ==
    IF ~pp.ok THEN pp
    ELSE Ok([node |-> name, class_type |-> T, property_parsers |-> pp.val])

\* DictDeserializer._check_key_type: None stands for no exception
CheckKeyType(key_type) ==
    IF key_type = TStr THEN Ok(PNone)
    ELSE IF ~IsClass(key_type) THEN IssubclassTypeError
    ELSE IF is_type_enum(key_type)
    THEN IF Len(enum_value_types(key_type)) # 1
         THEN InvalidKeyType("invalid key type, several value types")
         ELSE Ok(PNone)
    ELSE InvalidKeyType("invalid key type, expected str or enum.Enum with string values")

\* DictDeserializer.__init__, given the deserializer of the values
DictDeserializer(T, value_parser) ==
    Then(CheckKeyType(T.key),
         IF ~value_parser.ok THEN value_parser
         ELSE Ok([node |-> "DictDeserializer", key_type |-> T.key, value_type |-> T.value,
                  value_parser |-> value_parser.val]))

\* a factory that leaves the refusal to the parse
ConstructionDeferred(T) == Ok([node |-> "NoneDeserializer", deferred |-> T])

ConstructionTypeError(T) == Raise([cls |-> "TypeError", what |-> "construction", type |-> T])

\* not inspect.isclass(typ)
UnrecognizedTypeError(T) ==
    Raise([cls |-> "TypeError", what |-> "unable to de-serialize unrecognized type", type |-> T])

\* create_deserializer / _create_deserializer
CreateDeserializer(T) ==
    CASE T.kind = "NoneType" -> Ok(Node("NoneDeserializer"))
      [] T.kind = "bool" -> Ok(Node("BoolDeserializer"))
      [] T.kind = "int" -> Ok(Node("IntDeserializer"))
      [] T.kind = "float" -> Ok(Node("FloatDeserializer"))
      [] T.kind = "str" -> Ok(Node("StringDeserializer"))
      [] T.kind = "bytes" -> Ok(Node("BytesDeserializer"))
      [] T.kind = "datetime" -> Ok(Node("DateTimeDeserializer"))
      [] T.kind = "time" -> Ok(Node("TimeDeserializer"))
      [] T.kind \in {"list", "dict", "set", "tuple"} -> ConstructionTypeError(T)
      [] T.kind = "List" ->
            LET p == CreateDeserializer(T.item)
            IN  IF ~p.ok THEN p
                ELSE Ok([node |-> "ListDeserializer", item_type |-> T.item,
                         item_parser |-> p.val])
      [] T.kind = "Tuple" ->
            LET ps == ItemDeserializers(T.items)
            IN  IF ~ps.ok THEN ps
                ELSE Ok([node |-> "TupleDeserializer", item_types |-> T.items,
                         item_parsers |-> ps.val])
      [] T.kind = "Union" ->
            LET ps == ItemDeserializers(T.members)
            IN  IF ~ps.ok THEN ps
                ELSE Ok([node |-> "UnionDeserializer", member_types |-> T.members,
                         member_parsers |-> ps.val])
      [] T.kind = "Dict" -> DictDeserializer(T, CreateDeserializer(T.value))
      [] T.kind = "Annotated" -> CreateDeserializer(unwrap_annotated_type(T))
      [] T.kind = "Literal" -> UnrecognizedTypeError(T)
      [] T.kind = "class" ->
            IF ClassDef(T.name).ctype = "enum"
            THEN Ok([node |-> "EnumDeserializer", enum_type |-> T.name])
            ELSE IF is_named_tuple_type(T)
            THEN ClassDeserializer("NamedTupleDeserializer", T,
                                   NamedTupleFields(get_resolved_hints(T)))
            ELSE IF HasHook(T, "from_json")
            THEN Ok([node |-> "CustomDeserializer", converter |-> Converter(T, "from_json")])
            ELSE IF is_dataclass_type(T)
            THEN ClassDeserializer("DataclassDeserializer", T,
                                   DataclassFields(ClassDef(T.name).fields))
            ELSE ClassDeserializer("TypedClassDeserializer", T,
                                   TypedClassFields(get_resolved_hints(T)))
      \* a class that is no enumeration, named tuple or data class and has no
      \* type hints
      [] T.kind \in {"function", "module", "type", "method",
                     "builtin_function_or_method", "metaclass"} ->
            ClassDeserializer("TypedClassDeserializer", T, Ok(<< >>))

\* an except clause that names JsonTypeError only
UnionCatchesTypeError(r) == ~r.ok /\ r.exc.cls = "JsonTypeError"

\* an except clause that names the ValueError classes as well
UnionCatchesValueError(r) ==
    ~r.ok /\ r.exc.cls \in {"JsonKeyError", "JsonTypeError", "JsonValueError", "ValueError"}

\* the except clause of UnionDeserializer.parse
UnionCatches(r) == ~r.ok /\ r.exc.cls \in {"JsonKeyError", "JsonTypeError"}

\* an aggregate error that names the last alternative only
NoMatchLast(member_types, data) ==
    Raise([cls |-> "JsonKeyError", what |-> "could not be instantiated",
           member_types |-> <<member_types[Len(member_types)]>>, data |-> data])

\* an aggregate error of a class the except clause does not name
NoMatchTypeError(member_types, data) ==
    Raise([cls |-> "TypeError", what |-> "could not be instantiated",
           member_types |-> member_types, data |-> data])

\* raise JsonKeyError(f"type `{self.type}` could not be instantiated from: {data}")
NoMatch(member_types, data) ==
    Raise([cls |-> "JsonKeyError", what |-> "could not be instantiated",
           member_types |-> member_types, data |-> data])

MissingProperty(property_name, data) ==
    Raise([cls |-> "JsonKeyError", what |-> "missing required property",
           property_name |-> property_name, data |-> data])

UnrecognizedFields(names) ==
    Raise([cls |-> "JsonKeyError", what |-> "unrecognized fields", names |-> names])

\* data.get(property_name)
DictGet(data, property_name) ==
    IF property_name \in DOMAIN data.d THEN data.d[property_name] ELSE PNone

\* a lookup that falls back to the first member
EnumLookupDefault(enum_type, data) ==
    LET found == {m \in Range(ClassDef(enum_type).members) : PyEq(m.value, data)}
    IN  IF found = {}
        THEN Ok(PEnum(enum_type, ClassDef(enum_type).members[1].name))
        ELSE Ok(PEnum(enum_type, (CHOOSE m \in found : TRUE).name))

\* enum_type(data): the member whose value equals data, else ValueError
EnumLookup(enum_type, data) ==
    LET found == {m \in Range(ClassDef(enum_type).members) : PyEq(m.value, data)}
    IN  IF found = {}
        THEN Raise([cls |-> "ValueError", what |-> "not a valid member"])
        ELSE Ok(PEnum(enum_type, (CHOOSE m \in found : TRUE).name))

\* DateTimeDeserializer.parse
DateTimeParse(data) ==
    IF ~IsInstanceStr(data) THEN JsonTypeError(TDateTime, data)
    ELSE LET text == IF EndsWith(data.s, <<"Z">>)
                     THEN DropLast(data.s, 1) \o UtcSuffix
                     ELSE data.s
             timestamp == fromisoformat(text)
         IN  IF ~timestamp.ok THEN timestamp
             ELSE IF ~timestamp.val.aware
             THEN Raise([cls |-> "JsonValueError",
                         what |-> "timestamp lacks explicit time zone designator"])
             ELSE timestamp

\* TimeDeserializer.parse
TimeParse(data) ==
    IF ~IsInstanceStr(data) THEN JsonTypeError(TTime, data)
    ELSE time_fromisoformat(data.s)

\* BytesDeserializer.parse
BytesParse(data) ==
    IF ~IsInstanceStr(data) THEN JsonTypeError(TBytes, data)
    ELSE b64decode(data.s)

\* ClassDeserializer.create and NamedTupleDeserializer.create
Create(p, field_values) ==
    IF ~IsClassType(p.class_type)
    THEN Raise([cls |-> "TypeError", what |-> "object.__new__ is not safe"])
    ELSE IF p.node = "NamedTupleDeserializer"
    THEN IF DOMAIN field_values = {f.name : f \in Range(ClassDef(p.class_type.name).fields)}
         THEN Ok(PObj(p.class_type.name, field_values))
         ELSE Raise([cls |-> "TypeError", what |-> "missing required arguments"])
    ELSE IF ClassDef(p.class_type.name).frozen /\ DOMAIN field_values # {}
         THEN Raise([cls |-> "FrozenInstanceError", what |-> "cannot assign to field"])
         ELSE Ok(PObj(p.class_type.name, field_values))

RECURSIVE Parse(_, _), ParseItems(_, _), ParseZip(_, _), UnionTrial(_, _, _),
          ParseField(_, _), ParseFields(_, _, _, _), ParseEntries(_, _, _, _)

\* self.key_type(key)
KeyOf(key_type, key) ==
    IF key_type = TStr THEN Ok(key) ELSE EnumLookup(key_type.name, PStr(key))

\* the entry (key_type(key), value_parser.parse(value))
ParseEntry(k, r, out) ==
    IF ~k.ok THEN k ELSE IF ~r.ok THEN r ELSE Ok(Put(out, k.val, r.val))

NextParsedEntry(step, p, d, todo) ==
    IF ~step.ok THEN step ELSE ParseEntries(p, d, todo, step.val)

\* DictDeserializer.parse: todo holds the keys still to be read
ParseEntries(p, d, todo, out) ==
    IF todo = {} THEN Ok(PDict(out))
    ELSE NextParsedEntry(ParseEntry(KeyOf(p.key_type, CHOOSE key \in todo : TRUE),
                                    Parse(p.value_parser, d[CHOOSE key \in todo : TRUE]),
                                    out),
                         p, d, todo \ {CHOOSE key \in todo : TRUE})

\* [item_parser.parse(item) for item in data]
ParseItems(item_parser, items) ==
    IF items = << >> THEN Ok(<< >>)
    ELSE LET r == Parse(item_parser, Head(items))
             rest == ParseItems(item_parser, Tail(items))
         IN  IF ~r.ok THEN r ELSE IF ~rest.ok THEN rest ELSE Ok(<<r.val>> \o rest.val)

\* tuple(p.parse(item) for p, item in zip(item_parsers, data))
ParseZip(parsers, items) ==
    IF parsers = << >> \/ items = << >> THEN Ok(<< >>)
    ELSE LET r == Parse(Head(parsers), Head(items))
             rest == ParseZip(Tail(parsers), Tail(items))
         IN  IF ~r.ok THEN r ELSE IF ~rest.ok THEN rest ELSE Ok(<<r.val>> \o rest.val)

\* the loop of UnionDeserializer.parse from member i on
UnionTrial(p, data, i) ==
    IF i > Len(p.member_parsers) THEN NoMatch(p.member_types, data)
    ELSE LET r == Parse(p.member_parsers[i], data)
         IN  IF UnionCatches(r) THEN UnionTrial(p, data, i + 1) ELSE r

\* FieldDeserializer.parse_field
ParseField(fp, data) ==
    CASE fp.fp = "RequiredFieldDeserializer" ->
            IF fp.property_name \notin DOMAIN data.d
            THEN MissingProperty(fp.property_name, data)
            ELSE Parse(fp.parser, data.d[fp.property_name])
      [] fp.fp = "OptionalFieldDeserializer" ->
            IF DictGet(data, fp.property_name) # PNone
            THEN Parse(fp.parser, DictGet(data, fp.property_name))
            ELSE Ok(PNone)
      [] fp.fp = "DefaultFieldDeserializer" ->
            IF DictGet(data, fp.property_name) # PNone
            THEN Parse(fp.parser, DictGet(data, fp.property_name))
            ELSE Ok(fp.default_value)
      [] fp.fp = "DefaultFactoryFieldDeserializer" ->
            IF DictGet(data, fp.property_name) # PNone
            THEN Parse(fp.parser, DictGet(data, fp.property_name))
            ELSE Ok(fp.default_factory)

\* the field loop of ClassDeserializer.parse
ParseFields(pps, data, i, field_values) ==
    IF i > Len(pps) THEN Ok(field_values)
    ELSE LET r == ParseField(pps[i], data)
         IN  IF ~r.ok THEN r
             ELSE ParseFields(pps, data, i + 1, Put(field_values, pps[i].field_name, r.val))

ParsedProperties(p) == {fp.property_name : fp \in Range(p.property_parsers)}

UnassignedNames(p, data) == {name \in DOMAIN data.d : name \notin ParsedProperties(p)}

\* a parse that looks for unrecognized keys before it parses the fields
ClassParseKeysFirst(p, data) ==
    IF ~IsInstanceDict(data) THEN JsonTypeError(p.class_type, data)
    ELSE IF UnassignedNames(p, data) # {}
    THEN UnrecognizedFields(UnassignedNames(p, data))
    ELSE LET field_values == ParseFields(p.property_parsers, data, 1, << >>)
         IN  IF ~field_values.ok THEN field_values
             ELSE Create(p, field_values.val)

\* ClassDeserializer.parse
ClassParse(p, data) ==
    IF ~IsInstanceDict(data) THEN JsonTypeError(p.class_type, data)
    ELSE LET field_values == ParseFields(p.property_parsers, data, 1, << >>)
         IN  IF ~field_values.ok THEN field_values
             ELSE IF UnassignedNames(p, data) # {}
             THEN UnrecognizedFields(UnassignedNames(p, data))
             ELSE Create(p, field_values.val)

\* a parse that leaves the length to zip
TupleParseAnyLength(p, data) ==
    IF ~IsInstanceList(data) THEN JsonTypeError(TTuple(p.item_types), data)
    ELSE LET r == ParseZip(p.item_parsers, data.l)
         IN  IF ~r.ok THEN r ELSE Ok(PTuple(r.val))

\* TupleDeserializer.parse
TupleParse(p, data) ==
    IF ~IsInstanceList(data) THEN JsonTypeError(TTuple(p.item_types), data)
    ELSE IF Len(data.l) # Len(p.item_parsers)
    THEN Raise([cls |-> "JsonValueError", what |-> "length",
                length |-> Len(p.item_parsers), received |-> Len(data.l)])
    ELSE LET r == ParseZip(p.item_parsers, data.l)
         IN  IF ~r.ok THEN r ELSE Ok(PTuple(r.val))

\* Deserializer.parse of the node
Parse(p, data) ==
    CASE p.node = "NoneDeserializer" ->
            IF data # PNone THEN JsonTypeError(TNone, data) ELSE Ok(PNone)
      [] p.node = "BoolDeserializer" ->
            IF ~IsInstanceBool(data) THEN JsonTypeError(TBool, data) ELSE Ok(data)
      [] p.node = "IntDeserializer" ->
            IF ~IsInstanceInt(data) THEN JsonTypeError(TInt, data)
            ELSE Ok(PInt(Num(data) \div 2))
      [] p.node = "FloatDeserializer" ->
            IF ~IsInstanceFloat(data) /\ ~IsInstanceInt(data)
            THEN JsonTypeError(TFloat, data)
            ELSE Ok(PFloat(Num(data)))
      [] p.node = "StringDeserializer" ->
            IF ~IsInstanceStr(data) THEN JsonTypeError(TStr, data) ELSE Ok(data)
      [] p.node = "BytesDeserializer" -> BytesParse(data)
      [] p.node = "DateTimeDeserializer" -> DateTimeParse(data)
      [] p.node = "TimeDeserializer" -> TimeParse(data)
      [] p.node = "ListDeserializer" ->
            IF ~IsInstanceList(data) THEN JsonTypeError(TList(p.item_type), data)
            ELSE LET r == ParseItems(p.item_parser, data.l)
                 IN  IF ~r.ok THEN r ELSE Ok(PList(r.val))
      [] p.node = "TupleDeserializer" -> TupleParse(p, data)
      [] p.node = "DictDeserializer" ->
            IF ~IsInstanceDict(data)
            THEN JsonTypeError(TDict(p.key_type, p.value_type), data)
            ELSE ParseEntries(p, data.d, DOMAIN data.d, << >>)
      [] p.node = "UnionDeserializer" -> UnionTrial(p, data, 1)
      [] p.node = "EnumDeserializer" -> EnumLookup(p.enum_type, data)
      [] p.node = "CustomDeserializer" -> Ok(Call(p.converter, data))
      [] p.node \in {"NamedTupleDeserializer", "DataclassDeserializer",
                     "TypedClassDeserializer"} -> ClassParse(p, data)

\* json_to_object(typ, data) == create_deserializer(typ).parse(data)
ParseWith(p, data) == IF ~p.ok THEN p ELSE Parse(p.val, data)

Deserialize(T, data) == ParseWith(CreateDeserializer(T), data)

\* create_serializer(typ).generate(value)
Serialize(T, v) == GenerateWith(CreateSerializer(T), v)

(***************************************************************************)
(* The values and JSON documents the conversions are applied to.           *)
(***************************************************************************)
StrValues == {<<"a">>, <<"L">>}
ByteValues == {65, 78, 255}
Offsets == {0 - 1, 0, 1}
UntypedValues == {PNone, PInt(0)}

\* the sequences over S of length at most n
RECURSIVE SeqsUpTo(_, _)
SeqsUpTo(S, n) ==
    IF n = 0 THEN {<< >>}
    ELSE SeqsUpTo(S, n - 1) \cup {Append(q, x) : q \in {r \in SeqsUpTo(S, n - 1) : Len(r) = n - 1}, x \in S}

\* the keys of the dictionaries of the model
KeyValues(K) ==
    IF K = TStr THEN StrValues
    ELSE {PEnum(K.name, m.name) : m \in Range(ClassDef(K.name).members)}

RECURSIVE ValuesOf(_), FieldValues(_), TupleValues(_)

\* the assignments of values to the fields, as functions from field names
FieldValues(fields) ==
    IF fields = << >> THEN {<< >>}
    ELSE {Put(rest, Head(fields).name, v) :
              rest \in FieldValues(Tail(fields)), v \in ValuesOf(Head(fields).type)}

TupleValues(Ts) ==
    IF Ts = << >> THEN {<< >>}
    ELSE {<<v>> \o rest : v \in ValuesOf(Head(Ts)), rest \in TupleValues(Tail(Ts))}

\* the values of a type
ValuesOf(T) ==
    CASE T.kind = "NoneType" -> {PNone}
      [] T.kind = "untyped" -> UntypedValues
      [] T.kind = "bool" -> {PBool(TRUE), PBool(FALSE)}
      [] T.kind = "int" -> {PInt(i) : i \in 0..MaxInt}
      [] T.kind = "float" -> {PFloat(3)}
      [] T.kind = "str" -> {PStr(s) : s \in StrValues}
      [] T.kind = "bytes" -> {PBytes(y) : y \in SeqsUpTo(ByteValues, MaxBytes)}
      [] T.kind = "datetime" ->
            {PDateTime(w, TRUE, off) : w \in 0..MaxHour, off \in Offsets}
                \cup {PDateTime(w, FALSE, 0) : w \in 0..MaxHour}
      [] T.kind = "time" ->
            {PTime(w, TRUE, off) : w \in 0..MaxHour, off \in Offsets}
                \cup {PTime(w, FALSE, 0) : w \in 0..MaxHour}
      [] T.kind = "List" -> {PList(l) : l \in SeqsUpTo(ValuesOf(T.item), MaxLen)}
      [] T.kind = "Tuple" -> {PTuple(t) : t \in TupleValues(T.items)}
      [] T.kind = "Union" -> UNION {ValuesOf(T.members[i]) : i \in DOMAIN T.members}
      [] T.kind = "Dict" ->
            {PDict(d) : d \in UNION {[S -> ValuesOf(T.value)] :
                                        S \in {K \in SUBSET KeyValues(T.key) : Cardinality(K) <= MaxLen}}}
      [] T.kind = "Annotated" -> ValuesOf(T.arg)
      [] T.kind = "class" ->
            IF ClassDef(T.name).ctype = "enum"
            THEN {PEnum(T.name, m.name) : m \in Range(ClassDef(T.name).members)}
            ELSE {PObj(T.name, fv) : fv \in FieldValues(ClassDef(T.name).fields)}

RecordClasses == {n \in ClassNames : ClassDef(n).ctype # "enum"}

\* the JSON documents of the successful serializations of the values of T
GoodJson(T) == {r.val : r \in {s \in {Serialize(T, v) : v \in ValuesOf(T)} : s.ok}}

CommonLeaves == {PNone, PStr(<<"a">>)} \cup {PInt(i) : i \in 0..MaxInt}

ExtraKeys == {id_extra, id_other}

TypedFields(n) == {f \in Range(ClassDef(n).fields) : f.type # TUntyped}

\* the keys an input object for the record may have: the identifiers and the
\* JSON property names of its fields, and two keys that are neither
KeysFor(n) ==
    {f.name : f \in Range(ClassDef(n).fields)}
        \cup {python_id_to_json_field(f.name, f.type) : f \in Range(ClassDef(n).fields)}
        \cup ExtraKeys

LeavesFor(n) == CommonLeaves \cup UNION {GoodJson(f.type) : f \in TypedFields(n)}

JsonObjectsFor(n) ==
    {PDict(d) : d \in UNION {[S -> LeavesFor(n)] : S \in SUBSET KeysFor(n)}}

JsonInputsFor(n) == JsonObjectsFor(n) \cup CommonLeaves \cup {PList(<< >>)}

(***************************************************************************)
(* The record conversions: a record value is serialized and the document   *)
(* parsed back, or a JSON document is parsed into a record type.           *)
(***************************************************************************)
Nothing == [k |-> "nothing"]
NoType == [kind |-> "nothing"]
Pending == [ok |-> FALSE, exc |-> [cls |-> "pending"]]

\* the threads that call the factories
Threads == {1, 2}

\* a thread outside the factories: no call on its stack, no request made
IdleThread ==
    [stack |-> << >>, kind |-> "none", type |-> NoType, found |-> 0, after |-> 0,
     built |-> 0, out |-> Pending, requests |-> 0]

\* functools.lru_cache(maxsize=None) of _fetch_serializer and _fetch_deserializer:
\* both start empty
EmptyCache == [ser |-> << >>, de |-> << >>]

Init ==
    /\ pc = "idle"
    /\ typ = NoType
    /\ obj = Nothing
    /\ json = Nothing
    /\ res = Pending
    /\ idx = 0
    /\ tried = << >>
    /\ heap = << >>
    /\ cache = EmptyCache
    /\ threads = [t \in Threads |-> IdleThread]
    /\ first = EmptyCache

\* create_serializer(R).generate(v)
GenerateRecord ==
    /\ pc = "idle"
    /\ \E n \in RecordClasses : \E v \in ValuesOf(TClass(n)) :
          /\ typ' = TClass(n)
          /\ obj' = v
          /\ res' = Serialize(TClass(n), v)
    /\ json' = IF res'.ok THEN res'.val ELSE Nothing
    /\ pc' = "generated"
    /\ UNCHANGED <<idx, tried>>
    /\ UNCHANGED cachevars

\* create_deserializer(R).parse(json) of the document just generated
ParseBack ==
    /\ pc = "generated"
    /\ res.ok
    /\ pc' = "roundtrip"
    /\ res' = Deserialize(typ, json)
    /\ UNCHANGED <<typ, obj, json, idx, tried>>
    /\ UNCHANGED cachevars

\* create_deserializer(R).parse(data)
ParseRecord ==
    /\ pc = "idle"
    /\ \E n \in RecordClasses : \E data \in JsonInputsFor(n) :
          /\ typ' = TClass(n)
          /\ json' = data
          /\ res' = Deserialize(TClass(n), data)
    /\ obj' = Nothing
    /\ pc' = "parsed"
    /\ UNCHANGED <<idx, tried>>
    /\ UNCHANGED cachevars

Reset ==
    /\ pc # "idle"
    /\ pc' = "idle"
    /\ typ' = NoType
    /\ obj' = Nothing
    /\ json' = Nothing
    /\ res' = Pending
    /\ idx' = 0
    /\ tried' = << >>
    /\ UNCHANGED cachevars

Next ==
    \/ GenerateRecord
    \/ ParseBack
    \/ ParseRecord
    \/ Reset

Spec == Init /\ [][Next]_vars

(***************************************************************************)
(* Properties of the record conversions.                                   *)
(***************************************************************************)
FieldsOf(T) == Range(ClassDef(T.name).fields)

\* the name the serializer writes the field under
ExternalName(f) == python_field_to_json_property(f.name, f.type)

HasDefault(f) == f.default.dk \in {"default", "default_factory"}

\* the value has a field that is null although the field declares no default
NullNonDefaulted(o) == \E f \in FieldsOf(TypeOf(o)) : o.fields[f.name] = PNone /\ ~HasDefault(f)

\* C1: round trip: a record value with no null-valued non-defaulted field
\* that has been serialized parses back to a value equal to it.
RoundTrip ==
    (pc = "roundtrip" /\ ~NullNonDefaulted(obj)) => (res.ok /\ PyEq(res.val, obj))

ParsedObject == pc = "parsed" /\ IsInstanceDict(json)

IsMissingProperty(r, names) ==
    /\ ~r.ok
    /\ r.exc.cls = "JsonKeyError"
    /\ r.exc.what = "missing required property"
    /\ r.exc.property_name \in names

\* C2: omission law: a serialized record has no key for a field whose value
\* is null, and parsing an object that lacks the key of an optional field
\* does not fail for that and yields null, or the declared default, for it.
OmissionLaw ==
    /\ (pc = "generated" /\ res.ok) =>
          \A f \in FieldsOf(typ) :
              obj.fields[f.name] = PNone => ExternalName(f) \notin DOMAIN json.d
    /\ ParsedObject =>
          \A f \in FieldsOf(typ) :
              (is_type_optional(f.type) /\ {f.name, ExternalName(f)} \cap DOMAIN json.d = {}) =>
                  /\ ~IsMissingProperty(res, {f.name, ExternalName(f)})
                  /\ res.ok => res.val.fields[f.name] = (IF HasDefault(f) THEN f.default.v ELSE PNone)

ExternalNames(T) == {ExternalName(f) : f \in FieldsOf(T)}

\* the keys of the object that are not the external name of a field
UnknownKeys(T, data) == DOMAIN data.d \ ExternalNames(T)

\* the object without the keys in names
Without(data, names) == PDict([k \in DOMAIN data.d \ names |-> data.d[k]])

\* C3: strictness: an object that has keys that are not external names of
\* fields of the record, and is a serialized record value otherwise, fails
\* with the JsonKeyError that lists every such key; no record is returned.
StrictUnknownKeys ==
    (/\ ParsedObject
     /\ UnknownKeys(typ, json) # {}
     /\ Without(json, UnknownKeys(typ, json)) \in GoodJson(typ))
        => res = UnrecognizedFields(UnknownKeys(typ, json))

\* not optional, no default, no default factory
RequiredField(f) == ~is_type_optional(f.type) /\ ~HasDefault(f)

\* C4: an object that is a serialized record value except that it lacks the
\* key of a required field fails with the missing-field JsonKeyError that
\* names the external property name of that field.
MissingRequired ==
    ParsedObject =>
        \A f \in FieldsOf(typ) :
            (/\ RequiredField(f)
             /\ ExternalName(f) \notin DOMAIN json.d
             /\ \E g \in GoodJson(typ) :
                   ExternalName(f) \in DOMAIN g.d /\ json = Without(g, {ExternalName(f)}))
                => res = MissingProperty(ExternalName(f), json)

\* a data-class field that declares a default value or a default factory,
\* whose key the parsed object lacks
DefaultedAndAbsent(f) ==
    /\ ParsedObject
    /\ is_dataclass_type(typ)
    /\ f \in FieldsOf(typ)
    /\ HasDefault(f)
    /\ ExternalName(f) \notin DOMAIN json.d

\* C5: when the object lacks the key of a data-class field with a default
\* value or default factory, parsing does not fail for the lack of it and the
\* field of the record parsed is the default, also when the field's type is
\* optional: it is null only if the default is null.
DefaultApplied ==
    (ParsedObject /\ is_dataclass_type(typ)) =>
        \A f \in FieldsOf(typ) : DefaultedAndAbsent(f) =>
            /\ ~IsMissingProperty(res, {f.name, ExternalName(f)})
            /\ res.ok =>
                  /\ res.val.fields[f.name] = f.default.v
                  /\ (res.val.fields[f.name] = PNone => f.default.v = PNone)

\* an optional field with the default 1 is parsed from the empty object
DefaultAppliedWitness ==
    /\ typ = TClass("Dflt")
    /\ DefaultedAndAbsent(Field(id_x, TOptional(TInt), Default(PInt(1))))
    /\ res.ok
    /\ res.val.fields[id_x] = PInt(1)

(***************************************************************************)
(* UnionDeserializer.parse, one alternative per step: idx is the position  *)
(* of the for loop over member_parsers, tried the outcomes of the          *)
(* alternatives tried so far.                                              *)
(***************************************************************************)
UnionTypes ==
    {TUnion(<<TInt, TStr>>),
     TUnion(<<TInt, TBool>>),
     TUnion(<<TBool, TInt, TStr>>),
     TUnion(<<TClass("A"), TClass("B")>>),
     TUnion(<<TClass("Two"), TClass("Simple"), TInt>>),
     TUnion(<<TDateTime, TStr>>),
     TUnion(<<TStr, TDateTime>>),
     TUnion(<<TTuple(<<TInt, TInt>>), TList(TInt)>>),
     TUnion(<<TClass("Side"), TStr>>),
     TUnion(<<TClass("HasU"), TClass("Simple")>>),
     TUnion(<<TClass("HasU"), TDict(TStr, TInt)>>),
     TUnion(<<TList(TUnion(<<TStr, TBool>>)), TList(TInt)>>),
     TUnion(<<TAnnotated(TUnion(<<TStr, TBool>>), id_b), TInt>>),
     TUnion(<<TFloat, TInt>>),
     TUnion(<<TStr, TBool>>)}

Suffixes == {<< >>, <<"Z">>, UtcSuffix, OffsetText(1), OffsetText(0 - 1)}

TimestampTexts ==
    {PStr(DatePrefix \o TwoDigits(h) \o MinSec \o sfx) : h \in 0..MaxHour, sfx \in Suffixes}

IntLists == {PList(l) : l \in SeqsUpTo({PInt(i) : i \in 0..MaxInt}, MaxLen + 1)}

UnionInputs ==
    CommonLeaves \cup {PBool(TRUE), PBool(FALSE), PFloat(1), PStr(<<"L">>)}
        \cup TimestampTexts \cup IntLists
        \cup {PDict(d) : d \in UNION {[S -> CommonLeaves] : S \in SUBSET {id_value, id_u}}}
        \cup {PDict(id_u :> PDict(id_value :> PInt(0)))}

\* the UnionDeserializer of the union being parsed
UnionParser == CreateDeserializer(typ).val

\* UnionDeserializer.parse is entered
UnionStart ==
    /\ pc = "idle"
    /\ \E U \in UnionTypes : \E data \in UnionInputs :
          /\ typ' = U
          /\ json' = data
    /\ idx' = 1
    /\ tried' = << >>
    /\ pc' = "trying"
    /\ UNCHANGED <<obj, res>>
    /\ UNCHANGED cachevars

\* the outcome of member_parsers[idx].parse(data)
Trial == Parse(UnionParser.member_parsers[idx], json)

\* the except clause: the alternative raised JsonKeyError or JsonTypeError
UnionContinue ==
    /\ pc = "trying"
    /\ idx <= Len(UnionParser.member_parsers)
    /\ UnionCatches(Trial)
    /\ tried' = Append(tried, Trial)
    /\ idx' = idx + 1
    /\ UNCHANGED <<pc, typ, obj, json, res>>
    /\ UNCHANGED cachevars

\* return parser.parse(data)
UnionReturn ==
    /\ pc = "trying"
    /\ idx <= Len(UnionParser.member_parsers)
    /\ Trial.ok
    /\ tried' = Append(tried, Trial)
    /\ res' = Trial
    /\ pc' = "done"
    /\ UNCHANGED <<typ, obj, json, idx>>
    /\ UNCHANGED cachevars

\* the alternative raised an exception the except clause does not name
UnionPropagate ==
    /\ pc = "trying"
    /\ idx <= Len(UnionParser.member_parsers)
    /\ ~Trial.ok /\ ~UnionCatches(Trial)
    /\ tried' = Append(tried, Trial)
    /\ res' = Trial
    /\ pc' = "done"
    /\ UNCHANGED <<typ, obj, json, idx>>
    /\ UNCHANGED cachevars

\* the loop ran out of alternatives: raise JsonKeyError
UnionExhausted ==
    /\ pc = "trying"
    /\ idx > Len(UnionParser.member_parsers)
    /\ res' = NoMatch(UnionParser.member_types, json)
    /\ pc' = "done"
    /\ UNCHANGED <<typ, obj, json, idx, tried>>
    /\ UNCHANGED cachevars

NextUnion ==
    \/ UnionStart
    \/ UnionContinue
    \/ UnionReturn
    \/ UnionPropagate
    \/ UnionExhausted
    \/ Reset

SpecUnion == Init /\ [][NextUnion]_vars

(***************************************************************************)
(* Properties of the union trial.                                          *)
(***************************************************************************)
\* what alternative i alone makes of the input
Alone(i) == Deserialize(typ.members[i], json)

\* the alternatives, in declared order, that do not fail with a shape-class error
NotShapeFailing == {i \in DOMAIN typ.members : ~IsShapeError(Alone(i))}

First(S) == CHOOSE i \in S : \A j \in S : i <= j

\* C6: union order sensitivity: the parse returns the result of the first
\* alternative, in declared order, that does not fail with a shape-class
\* error; every alternative tried before it failed with a shape-class error
\* and no alternative after it is tried, so of two alternatives that accept
\* the input the earlier one wins.
UnionFirstWins ==
    /\ pc = "trying" => \A i \in DOMAIN tried : IsShapeError(tried[i])
    /\ (pc = "done" /\ NotShapeFailing # {}) =>
          /\ res = Alone(First(NotShapeFailing))
          /\ Len(tried) = First(NotShapeFailing)
          /\ \A j \in 1..(Len(tried) - 1) : ~Alone(j).ok
    /\ (pc = "done" /\ res.ok) => NotShapeFailing # {}

\* two alternatives accept the input and the result is that of the earlier
UnionFirstWinsWitness ==
    /\ pc = "done"
    /\ res.ok
    /\ typ = TUnion(<<TClass("A"), TClass("B")>>)
    /\ Alone(1).ok /\ Alone(2).ok
    /\ res.val.cls = "A"
    /\ Len(tried) = 1

\* C7: if every alternative fails with a shape-class error the parse raises
\* one JsonKeyError that names all the alternative types and holds the
\* input; it returns no value.
UnionNoMatch ==
    (pc = "done" /\ \A i \in DOMAIN typ.members : IsShapeError(Alone(i))) =>
        /\ ~res.ok
        /\ res.exc.cls = "JsonKeyError"
        /\ res.exc.what = "could not be instantiated"
        /\ res.exc.member_types = typ.members
        /\ res.exc.data = json
        /\ Len(tried) = Len(typ.members)

\* three alternatives have been tried and have failed, and the error is raised
UnionNoMatchWitness ==
    /\ pc = "done"
    /\ typ = TUnion(<<TBool, TInt, TStr>>)
    /\ json = PNone
    /\ Len(tried) = 3
    /\ ~res.ok
    /\ res.exc.member_types = <<TBool, TInt, TStr>>

\* a failure that is not of the shape class: a semantic violation
IsSemantic(r) == ~r.ok /\ r.exc.cls \in {"JsonValueError", "ValueError"}

\* C8: only shape-class failures are swallowed: when an alternative fails
\* with a semantic violation the trial stops there, that error is the
\* outcome of the parse and no later alternative is tried, even one that
\* accepts the input.
UnionSemanticStops ==
    /\ \A i \in DOMAIN tried : (IsSemantic(tried[i]) => (i = Len(tried) /\ pc = "done" /\ res = tried[i]))
    /\ (pc = "done" /\ NotShapeFailing # {} /\ IsSemantic(Alone(First(NotShapeFailing)))) =>
          /\ res = Alone(First(NotShapeFailing))
          /\ Len(tried) = First(NotShapeFailing)

\* a timestamp without offset stops the trial although str accepts the text
UnionSemanticStopsWitness ==
    /\ pc = "done"
    /\ typ = TUnion(<<TDateTime, TStr>>)
    /\ Len(tried) = 1
    /\ IsSemantic(res)
    /\ res.exc.cls = "JsonValueError"
    /\ Alone(2).ok

(***************************************************************************)
(* The scalar codecs of timestamps and binary data.                        *)
(***************************************************************************)
MaxText == 5

B64Symbols == {"Q", "U", "4", "=", "!"}

B64Texts == {PStr(s) : s \in SeqsUpTo(B64Symbols, MaxText)}

ScalarTypes == {TDateTime, TBytes, TTime}

TimeTexts ==
    {PStr(TwoDigits(h) \o MinSec \o sfx) : h \in 0..MaxHour, sfx \in Suffixes}

ScalarInputs(T) ==
    IF T = TDateTime
    THEN TimestampTexts \cup CommonLeaves
    ELSE IF T = TTime
    THEN TimeTexts \cup CommonLeaves
    ELSE B64Texts \cup CommonLeaves

\* create_serializer(T).generate(v) for a timestamp or a byte string
GenerateScalar ==
    /\ pc = "idle"
    /\ \E T \in ScalarTypes : \E v \in ValuesOf(T) :
          /\ typ' = T
          /\ obj' = v
          /\ res' = Serialize(T, v)
    /\ json' = IF res'.ok THEN res'.val ELSE Nothing
    /\ pc' = "generated"
    /\ UNCHANGED <<idx, tried>>
    /\ UNCHANGED cachevars

\* create_deserializer(T).parse(data)
ParseScalar ==
    /\ pc = "idle"
    /\ \E T \in ScalarTypes : \E data \in ScalarInputs(T) :
          /\ typ' = T
          /\ json' = data
          /\ res' = Deserialize(T, data)
    /\ obj' = Nothing
    /\ pc' = "parsed"
    /\ UNCHANGED <<idx, tried>>
    /\ UNCHANGED cachevars

\* a second parse, of the timestamp or time text with its final Z written as
\* +00:00; tried keeps the outcome of the first
ParseTwin ==
    /\ pc = "parsed"
    /\ typ \in {TDateTime, TTime}
    /\ IsInstanceStr(json)
    /\ EndsWith(json.s, <<"Z">>)
    /\ tried' = <<res>>
    /\ json' = PStr(DropLast(json.s, 1) \o UtcSuffix)
    /\ res' = Deserialize(typ, json')
    /\ pc' = "twin"
    /\ UNCHANGED <<typ, obj, idx>>
    /\ UNCHANGED cachevars

NextScalar ==
    \/ GenerateScalar
    \/ ParseBack
    \/ ParseScalar
    \/ ParseTwin
    \/ Reset

SpecScalar == Init /\ [][NextScalar]_vars

(***************************************************************************)
(* Properties of the scalar codecs.                                        *)
(***************************************************************************)
\* timestamp text without offset
NoOffsetTexts == {PStr(DatePrefix \o TwoDigits(h) \o MinSec) : h \in 0..MaxHour}

IsJsonValueError(r) == ~r.ok /\ r.exc.cls = "JsonValueError"

\* C9: timestamp contract: a timestamp with UTC offset is serialized to text
\* that ends in Z, not in +00:00; text ending in Z and the same text ending
\* in +00:00 parse to the identical instant; parsing timestamp text without
\* offset and serializing a timestamp without time zone raise JsonValueError.
TimestampContract ==
    /\ (pc = "generated" /\ typ = TDateTime /\ obj.aware /\ obj.off = 0) =>
          /\ res.ok
          /\ EndsWith(res.val.s, <<"Z">>)
          /\ ~EndsWith(res.val.s, UtcSuffix)
    /\ (pc = "generated" /\ typ = TDateTime /\ ~obj.aware) => IsJsonValueError(res)
    /\ pc = "twin" => (res = tried[1] /\ (res.ok => (res.val.aware /\ res.val.off = 0)))
    /\ (pc = "parsed" /\ typ = TDateTime /\ json \in NoOffsetTexts) => IsJsonValueError(res)

\* text ending in Z, and then the same text ending in +00:00, has been
\* parsed into a timestamp
TimestampContractWitness ==
    /\ pc = "twin"
    /\ res.ok
    /\ tried[1].ok
    /\ EndsWith(json.s, UtcSuffix)

\* standard base64 text: groups of four characters of the alphabet, the last
\* group ending in at most two padding characters
ValidBase64(s) ==
    /\ Len(s) % 4 = 0
    /\ \E p \in 0..2 :
          /\ p <= Len(s)
          /\ \A i \in 1..(Len(s) - p) : IsB64Char(s[i])
          /\ \A i \in (Len(s) - p + 1)..Len(s) : s[i] = B64Pad

\* C10: binary round trip: a byte string is serialized to standard base64
\* text (the bytes 0x41, 0x4E to "QU4=") and that text parses back to the
\* byte string; a string that is not standard base64 is rejected.
BinaryContract ==
    /\ (pc = "generated" /\ typ = TBytes) =>
          /\ res.ok
          /\ ValidBase64(json.s)
          /\ (obj = PBytes(<<65, 78>>) => json = PStr(<<"Q", "U", "4", "=">>))
    /\ (pc = "roundtrip" /\ typ = TBytes) => res = Ok(obj)
    /\ (pc = "parsed" /\ typ = TBytes /\ IsInstanceStr(json) /\ ~ValidBase64(json.s)) => ~res.ok
(***************************************************************************)
(* The codecs of enumerations, tuples and maps, the construction of codecs *)
(* and the serialization of a value by its runtime type.                   *)
(***************************************************************************)
text_Hearts == <<"H", "e", "a", "r", "t", "s">>

CodecTypes ==
    {TClass("Suit"), TClass("Side"),
     TTuple(<<TInt>>), TTuple(<<TInt, TStr>>), TTuple(<<TClass("Suit"), TInt>>),
     TDict(TStr, TInt), TDict(TClass("Side"), TInt)}

CodecLeaves ==
    CommonLeaves \cup {PBool(TRUE), PFloat(2), PInt(MaxInt + 1), PStr(<<"L">>), PStr(text_Hearts)}

CodecInputs ==
    CodecLeaves \cup {PList(l) : l \in SeqsUpTo({PInt(0), PInt(MaxInt + 1), PStr(<<"a">>)}, MaxLen + 2)}
        \cup {PDict(d) : d \in UNION {[S -> {PInt(0), PStr(<<"a">>)}] :
                                         S \in SUBSET {<<"a">>, <<"L">>}}}

\* create_serializer(T).generate(v)
GenerateValue ==
    /\ pc = "idle"
    /\ \E T \in CodecTypes : \E v \in ValuesOf(T) :
          /\ typ' = T
          /\ obj' = v
          /\ res' = Serialize(T, v)
    /\ json' = IF res'.ok THEN res'.val ELSE Nothing
    /\ pc' = "generated"
    /\ UNCHANGED <<idx, tried>>
    /\ UNCHANGED cachevars

\* create_deserializer(T).parse(data)
ParseValue ==
    /\ pc = "idle"
    /\ \E T \in CodecTypes : \E data \in CodecInputs :
          /\ typ' = T
          /\ json' = data
          /\ res' = Deserialize(T, data)
    /\ obj' = Nothing
    /\ pc' = "parsed"
    /\ UNCHANGED <<idx, tried>>
    /\ UNCHANGED cachevars

KeyTypes ==
    {TStr, TInt, TClass("Side"), TClass("Suit"), TClass("Mixed"), TClass("Simple"), TList(TInt)}

BareContainerTypes == {TBareList, TBareDict, TBareSet, TBareTuple}

ExoticTypes == {TFunctionType, TModuleType, TType, TMethodType}

\* Literal["a", "L"], Literal[0, 1], Literal["a", 1], Literal[1, "a"]
LiteralTypes ==
    {TLiteral(<<PStr(<<"a">>), PStr(<<"L">>)>>), TLiteral(<<PInt(0), PInt(1)>>),
     TLiteral(<<PStr(<<"a">>), PInt(1)>>), TLiteral(<<PInt(1), PStr(<<"a">>)>>)}

ConstructTypes ==
    BareContainerTypes \cup ExoticTypes \cup CodecTypes
        \cup {TInt, TList(TInt), TList(TBareList), TTuple(<<TInt, TBareDict>>),
              TUnion(<<TInt, TBareSet>>), TClass("Simple")}
        \cup {TClass(n) : n \in HookClasses}
        \cup {TClass("Clash"), TClass("Two"), TClass("Aliased")}
        \cup {TClass("Mixed"), TList(TClass("Mixed"))}
        \cup LiteralTypes
        \cup {TDict(K, V) : K \in KeyTypes, V \in {TInt, TBareList}}

\* create_serializer(T)
ConstructSerializer ==
    /\ pc = "idle"
    /\ \E T \in ConstructTypes :
          /\ typ' = T
          /\ res' = CreateSerializer(T)
    /\ pc' = "serializer"
    /\ UNCHANGED <<obj, json, idx, tried>>
    /\ UNCHANGED cachevars

\* create_deserializer(T)
ConstructDeserializer ==
    /\ pc = "idle"
    /\ \E T \in ConstructTypes :
          /\ typ' = T
          /\ res' = CreateDeserializer(T)
    /\ pc' = "deserializer"
    /\ UNCHANGED <<obj, json, idx, tried>>
    /\ UNCHANGED cachevars

\* parse(data) of the deserializer just constructed
ApplyDeserializer ==
    /\ pc = "deserializer"
    /\ res.ok
    /\ \E data \in CodecInputs :
          /\ json' = data
          /\ res' = Parse(res.val, data)
    /\ pc' = "applied"
    /\ UNCHANGED <<typ, obj, idx, tried>>
    /\ UNCHANGED cachevars

text_Diamonds == <<"D", "i", "a", "m", "o", "n", "d", "s">>

\* the class object of the enumeration Suit, whose metaclass is EnumMeta
SuitClass ==
    PClassObj("EnumMeta", <<Attr(text_Diamonds, PEnum("Suit", "Diamonds")),
                            Attr(text_Hearts, PEnum("Suit", "Hearts"))>>)

\* the class objects of a plain class and of an abstract base class
PlainClass == PClassObj("type", << >>)
AbstractClass == PClassObj("ABCMeta", << >>)

ExoticValues == {PFunction, PMethod, PModule, PlainClass, SuitClass, AbstractClass}

DynamicValues ==
    ExoticValues \cup {PBuiltin, PInt(0), PEnum("Suit", "Hearts"), PSet(<<PInt(0)>>)}
        \cup {PList(l) : l \in SeqsUpTo({PInt(0), PFunction, PlainClass, AbstractClass}, MaxLen + 1)}
        \cup {PObj("UT", id_a :> a @@ id_b :> PInt(0)) : a \in {PNone, PModule, PMethod}}

\* object_to_json(v)
SerializeDynamic ==
    /\ pc = "idle"
    /\ \E v \in DynamicValues :
          /\ obj' = v
          /\ typ' = TypeOf(v)
          /\ res' = object_to_json(v)
    /\ json' = IF res'.ok THEN res'.val ELSE Nothing
    /\ pc' = "dynamic"
    /\ UNCHANGED <<idx, tried>>
    /\ UNCHANGED cachevars

NextCodec ==
    \/ GenerateValue
    \/ ParseBack
    \/ ParseValue
    \/ ConstructSerializer
    \/ ConstructDeserializer
    \/ ApplyDeserializer
    \/ SerializeDynamic
    \/ Reset

SpecCodec == Init /\ [][NextCodec]_vars

(***************************************************************************)
(* Properties of the enumeration and tuple codecs.                         *)
(***************************************************************************)
MembersOf(T) == Range(ClassDef(T.name).members)

\* the members of the enumeration whose declared value equals the data
MembersWithValue(T, data) == {m \in MembersOf(T) : PyEq(m.value, data)}

IsValueError(r) == ~r.ok /\ r.exc.cls = "ValueError"

\* C11: enumeration value lookup: a member is serialized to its declared
\* value, not to its name; a JSON value that equals the declared value of a
\* member parses to that member, and every other JSON value raises
\* ValueError: no default or substitute member is returned.
EnumValueLookup ==
    /\ (pc = "generated" /\ is_type_enum(typ)) =>
          \E m \in MembersOf(typ) : m.name = obj.member /\ res = Ok(m.value)
    /\ (pc = "parsed" /\ is_type_enum(typ)) =>
          /\ res.ok =>
                \E m \in MembersWithValue(typ, json) : res.val = PEnum(typ.name, m.name)
          /\ MembersWithValue(typ, json) # {} => res.ok
          /\ MembersWithValue(typ, json) = {} => IsValueError(res)

\* the name of a member has been parsed and rejected, and a value that is no
\* member's has been parsed and rejected
EnumValueLookupWitness ==
    /\ pc = "parsed"
    /\ typ = TClass("Suit")
    /\ json \in {PStr(text_Hearts), PInt(MaxInt + 1)}
    /\ IsValueError(res)

IsJsonTypeError(r) == ~r.ok /\ r.exc.cls = "JsonTypeError"

\* what the codec of item type i makes of item i of the array
ItemAlone(i) == Deserialize(typ.items[i], json.l[i])

\* C12: tuple arity: data that is not an array raises JsonTypeError; an array
\* whose length is not the number of item types raises JsonValueError; an
\* array of that length parses, item i by the codec of item type i in the
\* order of the array, unless the codec of an item fails.
TupleArity ==
    (pc = "parsed" /\ typ.kind = "Tuple") =>
        /\ ~IsInstanceList(json) => IsJsonTypeError(res)
        /\ (IsInstanceList(json) /\ Len(json.l) # Len(typ.items)) => IsJsonValueError(res)
        /\ (IsInstanceList(json) /\ Len(json.l) = Len(typ.items)) =>
              /\ ~IsJsonValueError(res) \/ \E i \in DOMAIN typ.items : IsJsonValueError(ItemAlone(i))
              /\ (\A i \in DOMAIN typ.items : ItemAlone(i).ok) =>
                    res = Ok(PTuple([i \in DOMAIN typ.items |-> ItemAlone(i).val]))
              /\ res.ok => \A i \in DOMAIN typ.items : ItemAlone(i).ok

\* an array one item longer than the tuple type, whose leading items the item
\* codecs accept, has been rejected
TupleArityWitness ==
    /\ pc = "parsed"
    /\ typ = TTuple(<<TInt, TStr>>)
    /\ json = PList(<<PInt(0), PStr(<<"a">>), PInt(0)>>)
    /\ IsJsonValueError(res)
(***************************************************************************)
(* Properties of the construction of codecs and of the serialization of a  *)
(* value by its runtime type.                                              *)
(***************************************************************************)
IsTypeError(r) == ~r.ok /\ r.exc.cls = "TypeError"

Constructed == pc \in {"serializer", "deserializer"}

RECURSIVE HasBareArgument(_)
HasBareArgument(T) ==
    CASE T \in BareContainerTypes -> TRUE
      [] T.kind = "List" -> HasBareArgument(T.item)
      [] T.kind = "Tuple" -> \E i \in DOMAIN T.items : HasBareArgument(T.items[i])
      [] T.kind = "Union" -> \E i \in DOMAIN T.members : HasBareArgument(T.members[i])
      [] OTHER -> FALSE

RECURSIVE ContainsExotic(_)
\* the value is, or holds as an item or a field, a function, a class, a bound
\* method or a module
ContainsExotic(v) ==
    CASE v \in ExoticValues -> TRUE
      [] v.k = "list" -> \E i \in DOMAIN v.l : ContainsExotic(v.l[i])
      [] v.k = "obj" -> \E x \in DOMAIN v.fields : ContainsExotic(v.fields[x])
      [] OTHER -> FALSE

\* C14: object_to_json of a function, a class of any metaclass, a bound
\* method or a module raises TypeError and returns no JSON value, also when
\* the value is an item or a field of the value serialized.
ExoticValueRejected ==
    (pc = "dynamic" /\ ContainsExotic(obj)) => (IsTypeError(res) /\ json = Nothing)
\* string, or an enumeration all of whose member values are strings
ValidKeyType(K) ==
    \/ K = TStr
    \/ is_type_enum(K) /\ \A m \in MembersOf(K) : IsInstanceStr(m.value)

IsInvalidKeyType(r) ==
    /\ IsJsonTypeError(r)
    /\ r.exc.what \in {"invalid key type, several value types",
                       "invalid enumeration key type",
                       "invalid key type, expected str or enum.Enum with string values"}

\* C15: map keys: the construction of the serializer and of the deserializer
\* of a map type with value type int succeeds only when the key type is str
\* or an enumeration all of whose values are strings, and fails with the
\* invalid-key-type JsonTypeError for every other key type.
MapKeyTypes ==
    (Constructed /\ typ.kind = "Dict" /\ typ.value = TInt /\ IsClass(typ.key)) =>
        /\ res.ok => ValidKeyType(typ.key)
        /\ ~ValidKeyType(typ.key) => IsInvalidKeyType(res)

(***************************************************************************)
(* The factories as threads run them: create_serializer and                *)
(* create_deserializer, the lru_cache in front of _create_serializer and   *)
(* _create_deserializer, and the calls the __init__ of a codec makes for   *)
(* the codecs of its parts. The types are the scalar types, the bare       *)
(* containers, List, Tuple, Union and the classes.                         *)
(***************************************************************************)
\* the depth of calls at which the interpreter raises RecursionError
MaxDepth == 3

\* the number of requests the threads make, all together
MaxRequests == 2

Kinds == {"ser", "de"}

CacheTypes == {TList(TInt), TClass("Simple"), TClass("Tree"), TBareList}

TypesOf(fields) == [i \in DOMAIN fields |-> fields[i].type]

RequiredTypes(fields) == [i \in DOMAIN fields |-> RequiredType(fields[i].type)]

\* the node the cache holds for the type, 0 if it holds none
Entry(c, k, T) == IF T \in DOMAIN c[k] THEN c[k][T] ELSE 0

\* leaves out the parts whose serializers the cache holds
SerializerArgsUncached(T) ==
    IF T.kind = "List" THEN <<T.item>>
    ELSE IF T.kind = "Tuple" THEN T.items
    ELSE IF T.kind = "class" /\ ~is_type_enum(T) /\ ~HasHook(T, "to_json")
    THEN SelectSeq(TypesOf(get_class_properties(T)), LAMBDA A : Entry(cache, "ser", A) = 0)
    ELSE << >>

\* the types whose serializers the __init__ of the serializer of T creates, in
\* the order of the calls
SerializerArgs(T) ==
    IF T.kind = "List" THEN <<T.item>>
    ELSE IF T.kind = "Tuple" THEN T.items
    ELSE IF T.kind = "class" /\ ~is_type_enum(T) /\ ~HasHook(T, "to_json")
    THEN TypesOf(get_class_properties(T))
    ELSE << >>

\* the types whose deserializers the __init__ of the deserializer of T creates
DeserializerArgs(T) ==
    IF T.kind = "List" THEN <<T.item>>
    ELSE IF T.kind = "Tuple" THEN T.items
    ELSE IF T.kind = "Union" THEN T.members
    ELSE IF T.kind # "class" \/ is_type_enum(T) THEN << >>
    ELSE IF is_named_tuple_type(T) THEN TypesOf(get_resolved_hints(T))
    ELSE IF HasHook(T, "from_json") THEN << >>
    ELSE IF is_dataclass_type(T) THEN RequiredTypes(ClassDef(T.name).fields)
    ELSE RequiredTypes(get_resolved_hints(T))

Args(k, T) == IF k = "ser" THEN SerializerArgs(T) ELSE DeserializerArgs(T)

\* _create_serializer or _create_deserializer of a type without parts
Leaf(k, T) == IF k = "ser" THEN CreateSerializer(T) ELSE CreateDeserializer(T)

\* the factory raises for the type itself
Refused(k, T) == Args(k, T) = << >> /\ ~Leaf(k, T).ok

RecursionError ==
    Raise([cls |-> "RecursionError", what |-> "maximum recursion depth exceeded"])

\* the call of a thread: the codec of the type is asked for by the frame below
Frame(k, T, fetched, node) ==
    [kind |-> k, type |-> T, fetched |-> fetched, node |-> node, args |-> Args(k, T),
     kids |-> << >>]

\* the caller of create_serializer(T) or create_deserializer(T)
Root(k, T) ==
    [kind |-> k, type |-> NoType, fetched |-> FALSE, node |-> 0, args |-> <<T>>,
     kids |-> << >>]

Top(t) == threads[t].stack[Len(threads[t].stack)]

\* the type of the call the frame makes next
Wanted(f) == f.args[Len(f.kids) + 1]

Calling(t) == threads[t].stack # << >> /\ Len(Top(t).kids) < Len(Top(t).args)

\* never consults the cache
LookupMiss(c, k, T) == 0

\* create_serializer and create_deserializer: a type object goes through the
\* lru_cache, 0 stands for a miss
Lookup(c, k, T) == IF IsClass(T) THEN Entry(c, k, T) ELSE 0

\* puts the node into the cache when its construction begins
EnteredPlaceholder(c, k, T, node) ==
    IF IsClass(T) THEN [c EXCEPT ![k] = Put(@, T, node)] ELSE c

\* the cache when _create_serializer or _create_deserializer is entered: the
\* lru_cache keeps nothing before the function has returned
Entered(c, k, T, node) == c

\* stores the nodes under construction of the calls an exception passes through
UnwoundPublished(c, stack) ==
    [k \in Kinds |->
        [T \in DOMAIN c[k] \cup {f.type : f \in {g \in Range(stack) : g.fetched /\ g.kind = k}} |->
            IF \E f \in Range(stack) : f.fetched /\ f.kind = k /\ f.type = T
            THEN (CHOOSE f \in Range(stack) : f.fetched /\ f.kind = k /\ f.type = T).node
            ELSE c[k][T]]]

\* the cache when an exception leaves the factories: the lru_cache stores
\* nothing for a call that raises, whatever the call had built
Unwound(c, stack) == c

\* cache[key] = result of the lru_cache, once the function has returned
Stored(c, f) == IF f.fetched THEN [c EXCEPT ![f.kind] = Put(@, f.type, f.node)] ELSE c

\* what the thread notes when its request enters the factory: the cache entry
\* of the type and the node the type was first answered with
Noted(t, k, T) ==
    IF Len(threads[t].stack) = 1
    THEN [threads[t] EXCEPT !.found = Entry(cache, k, T), !.after = Entry(first, k, T)]
    ELSE threads[t]

\* a thread calls create_serializer(T) or create_deserializer(T)
Request(t) ==
    /\ threads[t].stack = << >>
    /\ threads[1].requests + threads[2].requests < MaxRequests
    /\ \E k \in Kinds : \E T \in CacheTypes :
          threads' = [threads EXCEPT ![t] =
              [IdleThread EXCEPT !.stack = <<Root(k, T)>>, !.kind = k, !.type = T,
                                 !.requests = threads[t].requests + 1]]
    /\ UNCHANGED <<heap, cache, first>>
    /\ UNCHANGED <<pc, typ, obj, json, res, idx, tried>>

\* the lru_cache holds the codec of the wanted type: the call returns it
Hit(t) ==
    /\ Calling(t)
    /\ Lookup(cache, Top(t).kind, Wanted(Top(t))) # 0
    /\ threads' = [threads EXCEPT ![t] =
          [Noted(t, Top(t).kind, Wanted(Top(t))) EXCEPT
              !.stack[Len(threads[t].stack)].kids =
                    Append(@, Lookup(cache, Top(t).kind, Wanted(Top(t))))]]
    /\ UNCHANGED <<heap, cache, first>>
    /\ UNCHANGED <<pc, typ, obj, json, res, idx, tried>>

\* the call raises TypeError, which no frame of the factories catches
Refuse(t) ==
    /\ Calling(t)
    /\ Lookup(cache, Top(t).kind, Wanted(Top(t))) = 0
    /\ Refused(Top(t).kind, Wanted(Top(t)))
    /\ threads' = [threads EXCEPT ![t] =
          [Noted(t, Top(t).kind, Wanted(Top(t))) EXCEPT
              !.stack = << >>, !.out = Leaf(Top(t).kind, Wanted(Top(t)))]]
    /\ cache' = Unwound(cache, threads[t].stack)
    /\ UNCHANGED <<heap, first>>
    /\ UNCHANGED <<pc, typ, obj, json, res, idx, tried>>

\* the call exceeds the recursion limit
Overflow(t) ==
    /\ Calling(t)
    /\ Lookup(cache, Top(t).kind, Wanted(Top(t))) = 0
    /\ ~Refused(Top(t).kind, Wanted(Top(t)))
    /\ Len(threads[t].stack) > MaxDepth
    /\ threads' = [threads EXCEPT ![t] =
          [Noted(t, Top(t).kind, Wanted(Top(t))) EXCEPT
              !.stack = << >>, !.out = RecursionError]]
    /\ cache' = Unwound(cache, threads[t].stack)
    /\ UNCHANGED <<heap, first>>
    /\ UNCHANGED <<pc, typ, obj, json, res, idx, tried>>

\* a miss, or a type that is no type object: _create_serializer or
\* _create_deserializer begins to build a node
Enter(t) ==
    /\ Calling(t)
    /\ Lookup(cache, Top(t).kind, Wanted(Top(t))) = 0
    /\ ~Refused(Top(t).kind, Wanted(Top(t)))
    /\ Len(threads[t].stack) <= MaxDepth
    /\ heap' = Append(heap, [kind |-> Top(t).kind, type |-> Wanted(Top(t)),
                             kids |-> << >>, complete |-> FALSE])
    /\ cache' = Entered(cache, Top(t).kind, Wanted(Top(t)), Len(heap) + 1)
    /\ threads' = [threads EXCEPT ![t] =
          [Noted(t, Top(t).kind, Wanted(Top(t))) EXCEPT
              !.stack = Append(@, Frame(Top(t).kind, Wanted(Top(t)),
                                        IsClass(Wanted(Top(t))), Len(heap) + 1)),
              !.built = @ + 1]]
    /\ UNCHANGED first
    /\ UNCHANGED <<pc, typ, obj, json, res, idx, tried>>

\* the node has the codecs of its parts: the function returns it, the
\* lru_cache stores it, the caller receives it
Return(t) ==
    /\ Len(threads[t].stack) >= 2
    /\ ~Calling(t)
    /\ heap' = [heap EXCEPT ![Top(t).node] =
                    [@ EXCEPT !.kids = Top(t).kids, !.complete = TRUE]]
    /\ cache' = Stored(cache, Top(t))
    /\ threads' = [threads EXCEPT ![t].stack =
          [SubSeq(@, 1, Len(@) - 1) EXCEPT ![Len(@) - 1].kids = Append(@, Top(t).node)]]
    /\ UNCHANGED first
    /\ UNCHANGED <<pc, typ, obj, json, res, idx, tried>>

\* the request of the thread is answered
Finish(t) ==
    /\ Len(threads[t].stack) = 1
    /\ ~Calling(t)
    /\ threads' = [threads EXCEPT ![t].stack = << >>, ![t].out = Ok(Top(t).kids[1])]
    /\ first' = IF Entry(first, threads[t].kind, threads[t].type) # 0 THEN first
                ELSE [first EXCEPT ![threads[t].kind] =
                          Put(@, threads[t].type, Top(t).kids[1])]
    /\ UNCHANGED <<heap, cache>>
    /\ UNCHANGED <<pc, typ, obj, json, res, idx, tried>>

\* a step of the thread inside the factories
Advance(t) == Hit(t) \/ Refuse(t) \/ Overflow(t) \/ Enter(t) \/ Return(t) \/ Finish(t)

NextCache ==
    \/ \E t \in Threads : Request(t)
    \/ \E t \in Threads : Hit(t)
    \/ \E t \in Threads : Refuse(t)
    \/ \E t \in Threads : Overflow(t)
    \/ \E t \in Threads : Enter(t)
    \/ \E t \in Threads : Return(t)
    \/ \E t \in Threads : Finish(t)

SpecCache == Init /\ [][NextCache]_vars

\* the threads are scheduled: a thread inside the factories takes its next step
SpecCacheFair == SpecCache /\ \A t \in Threads : WF_vars(Advance(t))

(***************************************************************************)
(* Properties of the factories and their caches.                           *)
(***************************************************************************)
\* the thread has made a request and the request is answered or has raised
Answered(t) == threads[t].stack = << >> /\ threads[t].requests > 0

\* the nodes of the serializer cache are serializers, those of the
\* deserializer cache deserializers
CachesSeparate ==
    \A k \in Kinds : \A T \in DOMAIN cache[k] : heap[cache[k][T]].kind = k

EntriesKept ==
    \A k \in Kinds : \A T \in DOMAIN cache[k] :
        T \in DOMAIN cache'[k] /\ cache'[k][T] = cache[k][T]

\* two threads that both entered the factory for the same type while the cache
\* had no entry of it are answered with the same node
Adopted ==
    \A t, u \in Threads :
        /\ Answered(t) /\ Answered(u)
        /\ threads[t].kind = threads[u].kind /\ threads[t].type = threads[u].type
        /\ IsClass(threads[t].type)
        /\ threads[t].found = 0 /\ threads[u].found = 0
        /\ threads[t].out.ok /\ threads[u].out.ok
        => threads[t].out = threads[u].out

\* C17: of two threads that ask concurrently for the codec of a type not yet
\* cached, the one that loses the race drops its node and returns the node the
\* winner published; an entry of the cache is never replaced by another node
\* and never removed
PublishedOnce == [][EntriesKept /\ Adopted']_vars

RECURSIVE Completed(_)

\* the construction of the node and of the codecs of all its parts has ended
Completed(n) ==
    /\ heap[n].complete
    /\ Len(heap[n].kids) = Len(Args(heap[n].kind, heap[n].type))
    /\ \A i \in DOMAIN heap[n].kids :
          /\ heap[heap[n].kids[i]].type = Args(heap[n].kind, heap[n].type)[i]
          /\ Completed(heap[n].kids[i])

\* C18: publication into the cache is atomic per entry: whatever the threads
\* do, the cache holds for a type either no entry or a node whose construction,
\* that of the codecs of its parts included, has ended; no node under
\* construction can be reached through the cache
PublishedComplete ==
    \A k \in Kinds : \A T \in DOMAIN cache[k] :
        /\ heap[cache[k][T]].kind = k /\ heap[cache[k][T]].type = T
        /\ Completed(cache[k][T])

\* a thread is building the node of a class whose parts are not all there,
\* the cache has no entry of the class, and the other thread has looked the
\* class up and begun to build it as well
PublishedCompleteWitness ==
    \E t, u \in Threads :
        /\ t # u
        /\ Len(threads[t].stack) >= 2 /\ Len(threads[u].stack) >= 2
        /\ threads[t].stack[2].type = threads[u].stack[2].type
        /\ threads[t].stack[2].kind = threads[u].stack[2].kind
        /\ threads[t].stack[2].fetched
        /\ threads[t].stack[2].args # << >>
        /\ ~heap[threads[t].stack[2].node].complete
        /\ Entry(cache, threads[t].stack[2].kind, threads[t].stack[2].type) = 0
        /\ cache # EmptyCache

\* the name of the serializer of a class with properties
ClassSerializerName(T) ==
    IF is_dataclass_type(T) THEN "DataclassSerializer"
    ELSE IF is_named_tuple_type(T) THEN "TypedNamedTupleSerializer"
    ELSE "TypedClassSerializer"

PropertyGenerators(props, gens) ==
    [i \in DOMAIN gens |->
        FieldSerializer(props[i].name,
                        python_field_to_json_property(props[i].name, props[i].type),
                        gens[i])]

\* the serializer the __init__ makes of the serializers of the parts
SerializerNode(T, gens) ==
    IF T.kind = "List" THEN [node |-> "TypedListSerializer", generator |-> gens[1]]
    ELSE IF T.kind = "Tuple" THEN [node |-> "TypedTupleSerializer", item_generators |-> gens]
    ELSE IF T.kind = "class" /\ ~is_type_enum(T) /\ get_class_properties(T) # << >>
    THEN [node |-> ClassSerializerName(T),
          property_generators |-> PropertyGenerators(get_class_properties(T), gens)]
    ELSE CreateSerializer(T).val

RECURSIVE SerializerAt(_)

\* the serializer a node of the heap is
SerializerAt(n) ==
    SerializerNode(heap[n].type, [i \in DOMAIN heap[n].kids |-> SerializerAt(heap[n].kids[i])])

\* values of the types the threads ask for
TreeValue(v, next) == PObj("Tree", Put(Put(<< >>, id_value, PInt(v)), id_x, next))

CacheValues(T) ==
    IF T = TClass("Tree")
    THEN {TreeValue(0, PNone), TreeValue(1, TreeValue(0, PNone))}
    ELSE IF T = TBareList
    THEN {PList(<< >>), PList(<<PInt(1), PStr(<<"a">>)>>), PList(<<PList(<<PNone>>)>>)}
    ELSE ValuesOf(T)

\* the two threads were answered for the serializer of the same type
BothAnswered(t, u) ==
    /\ t # u /\ Answered(t) /\ Answered(u)
    /\ threads[t].kind = "ser" /\ threads[u].kind = "ser"
    /\ threads[t].type = threads[u].type

\* the serializers the two threads were given generate the same for every value
SameOutput(t, u) ==
    /\ threads[t].out.ok /\ threads[u].out.ok
    /\ \A v \in CacheValues(threads[t].type) :
          Generate(SerializerAt(threads[t].out.val), v)
              = Generate(SerializerAt(threads[u].out.val), v)

\* C19: cache determinism: two threads that ask at the same time, each for the
\* first time, for the serializer of the same type are both answered with a
\* serializer, and the two serializers, the same node or not, generate the
\* same output for every value
CacheDeterminism ==
    /\ [](\A t, u \in Threads : BothAnswered(t, u) => SameOutput(t, u))
    /\ \A t \in Threads :
          (threads[t].kind = "ser" /\ threads[t].stack # << >>)
              ~> (Answered(t) /\ threads[t].out.ok)

\* both threads missed the cache for the serializer of a class, both built a
\* node of their own, and both were answered
CacheDeterminismWitness ==
    \E t, u \in Threads :
        /\ BothAnswered(t, u)
        /\ threads[t].type = TClass("Simple")
        /\ threads[t].found = 0 /\ threads[u].found = 0
        /\ threads[t].built > 0 /\ threads[u].built > 0
        /\ threads[t].out.ok /\ threads[u].out.ok
        /\ threads[t].out # threads[u].out

\* a record with a field whose type is the record itself, bare or under
\* Optional or List
SelfReferential(T) ==
    /\ T.kind = "class" /\ ~is_type_enum(T)
    /\ \E f \in Range(ClassDef(T.name).fields) : f.type \in {T, TOptional(T), TList(T)}

\* C20: the construction of the codec of a directly self-referential record
\* ends and returns a codec: the field that refers to the record resolves to
\* the entry put into the cache before the fields were visited, so no second
\* build of the record begins inside the first
SelfReferenceResolved ==
    \A t \in Threads :
        /\ Answered(t) /\ SelfReferential(threads[t].type) => threads[t].out.ok
        /\ \A i, j \in DOMAIN threads[t].stack :
              i < j /\ SelfReferential(threads[t].stack[j].type) =>
                  threads[t].stack[i].type # threads[t].stack[j].type

\* the request of the thread has raised
Raised(t) == Answered(t) /\ ~threads[t].out.ok

\* the node is in no cache
Unpublished(n) == \A k \in Kinds : \A T \in DOMAIN cache[k] : cache[k][T] # n

\* C21: a construction-time error aborts the construction: when the request
\* for a codec of T has raised, for T itself or for a type nested in T, no
\* cache holds an entry of T, every other request for the codec of T that is
\* answered has raised as well, and a node whose construction has not ended
\* is neither in a cache nor the answer of a request.
ConstructionAborts ==
    /\ \A t \in Threads :
          Raised(t) =>
              /\ Entry(cache, threads[t].kind, threads[t].type) = 0
              /\ \A u \in Threads :
                    (Answered(u) /\ threads[u].kind = threads[t].kind
                                 /\ threads[u].type = threads[t].type) => Raised(u)
    /\ \A n \in DOMAIN heap :
          ~heap[n].complete =>
              /\ Unpublished(n)
              /\ \A t \in Threads : Answered(t) => threads[t].out # Ok(n)

\* the deserializer of the self-referential record was refused to one thread
\* after its parts had been begun, and then, on a later request, to the other
ConstructionAbortsWitness ==
    /\ \A t \in Threads :
          /\ Raised(t)
          /\ threads[t].kind = "de"
          /\ threads[t].type = TClass("Tree")
    /\ \E n \in DOMAIN heap : heap[n].type = TClass("Tree") /\ ~heap[n].complete

(***************************************************************************)
(* Properties of the codecs the factories choose for a class.              *)
(***************************************************************************)
IsCustom(r, name) == r.ok /\ r.val.node = name

\* C22: custom conversion wins over structural inference: for a class that
\* defines to_json, create_serializer returns the CustomSerializer of the
\* hook, and for a class that defines from_json, create_deserializer returns
\* the CustomDeserializer of the hook, whether the class is an enumeration, a
\* named tuple, a data class or a class with annotations.
CustomWins ==
    /\ (pc = "serializer" /\ HasHook(typ, "to_json")) =>
          /\ IsCustom(res, "CustomSerializer")
          /\ res.val.converter = Converter(typ, "to_json")
    /\ (pc = "deserializer" /\ HasHook(typ, "from_json")) =>
          /\ IsCustom(res, "CustomDeserializer")
          /\ res.val.converter = Converter(typ, "from_json")

\* the type is a class with fields
IsRecord(T) == T.kind = "class" /\ ClassDef(T.name).ctype # "enum"

\* two fields of the record have the same JSON property name
NamesCollide(T) ==
    \E i, j \in DOMAIN ClassDef(T.name).fields :
        /\ i # j
        /\ ExternalName(ClassDef(T.name).fields[i]) = ExternalName(ClassDef(T.name).fields[j])

\* the field codecs of the record codec
FieldCodecs(node) ==
    IF "property_generators" \in DOMAIN node THEN node.property_generators
    ELSE node.property_parsers

\* C23: within one record the JSON property names of the fields are pairwise
\* distinct: the construction of the serializer and of the deserializer of a
\* record two of whose fields have the same property name raises, and no
\* record codec that was constructed holds two fields under one name.
NamesDistinct ==
    (Constructed /\ IsRecord(typ) /\ ~HasHook(typ, "to_json")) =>
        /\ NamesCollide(typ) => ~res.ok
        /\ res.ok =>
              \A i, j \in DOMAIN FieldCodecs(res.val) :
                  i # j => FieldCodecs(res.val)[i].property_name # FieldCodecs(res.val)[j].property_name

\* an enumeration whose member values are of more than one type
Heterogeneous(T) == is_type_enum(T) /\ Len(enum_value_types(T)) > 1

\* C24: enumerations are value-homogeneous: the construction of the
\* serializer and of the deserializer of an enumeration whose member values
\* are of more than one type raises, whether the enumeration is the type
\* itself or the key type of a map type.
EnumHomogeneous ==
    Constructed =>
        /\ Heterogeneous(typ) => ~res.ok
        /\ (typ.kind = "Dict" /\ Heterogeneous(typ.key)) => ~res.ok

\* the values of the literal type are of one type
LiteralHomogeneous(T) == \A i, j \in DOMAIN T.values : TypeOf(T.values[i]) = TypeOf(T.values[j])

\* C25: literal sets: the deserializer of a literal type whose values are of
\* one type is constructed, returns an input that equals one of the values
\* and raises JsonTypeError for every other input; a literal type whose
\* values are of different types is rejected with TypeError when the codec
\* is constructed.
LiteralSet ==
    typ.kind = "Literal" =>
        /\ (pc = "deserializer" /\ LiteralHomogeneous(typ)) => res.ok
        /\ pc = "applied" =>
              /\ json \in Range(typ.values) => res = Ok(json)
              /\ json \notin Range(typ.values) => IsJsonTypeError(res)
        /\ (Constructed /\ ~LiteralHomogeneous(typ)) => IsTypeError(res)

(***************************************************************************)
(* Properties of the codec of times of day.                                *)
(***************************************************************************)
\* C26: times of day follow the offset convention of timestamps: a time with
\* UTC offset is serialized to text that ends in Z, not in +00:00; time text
\* that ends in Z is accepted and parses to the value of the same text ending
\* in +00:00; a time without time zone is serialized to its clock text.
TimeContract ==
    typ = TTime =>
        /\ (pc = "generated" /\ obj.aware /\ obj.off = 0) =>
              /\ res.ok
              /\ EndsWith(res.val.s, <<"Z">>)
              /\ ~EndsWith(res.val.s, UtcSuffix)
        /\ (pc = "generated" /\ ~obj.aware) => res = Ok(PStr(TwoDigits(obj.wall) \o MinSec))
        /\ pc = "twin" => (tried[1].ok /\ res = tried[1])

(***************************************************************************)
(* Properties of the parse of a record.                                    *)
(***************************************************************************)
\* the field may be left out of the document: it is optional or has a default
MayBeAbsent(f) == is_type_optional(f.type) \/ HasDefault(f)

\* the document has the key of the field with the value null
ExplicitNull(f) == ExternalName(f) \in DOMAIN json.d /\ json.d[ExternalName(f)] = PNone

\* the same value, or an exception of the same class
SameOutcome(r, q) == IF r.ok THEN r = q ELSE ~q.ok /\ r.exc.cls = q.exc.cls

\* C27: the codec of a field only sees a present value: for a field that is
\* optional or has a default or a default factory, an explicit null under the
\* key of the field gives what the document without the key gives; for a
\* required field an explicit null makes the parse fail, with a type or key
\* error of the codec when the record has no other field.
NullIsAbsent ==
    ParsedObject =>
        \A f \in FieldsOf(typ) :
            ExplicitNull(f) =>
                IF MayBeAbsent(f)
                THEN SameOutcome(res, Deserialize(typ, Without(json, {ExternalName(f)})))
                ELSE /\ ~res.ok
                     /\ Len(ClassDef(typ.name).fields) = 1 => IsShapeError(res)

\* the field parsers of the deserializer of the record type
PropertyParsers(T) == CreateDeserializer(T).val.property_parsers

\* what field parser i alone makes of the document
FieldOutcome(pps, i) == ParseField(pps[i], json)

\* the first field parser, in declaration order, that fails on the document
FirstFailing(pps) ==
    {i \in DOMAIN pps : ~FieldOutcome(pps, i).ok /\ \A j \in 1..(i - 1) : FieldOutcome(pps, j).ok}

\* the keys of the document that no field parser reads
Unrecognized(pps) ==
    {name \in DOMAIN json.d : \A i \in DOMAIN pps : pps[i].property_name # name}

OrderedWith(pps) ==
    /\ \A i \in FirstFailing(pps) : res = FieldOutcome(pps, i)
    /\ (FirstFailing(pps) = {} /\ Unrecognized(pps) # {}) =>
          res = UnrecognizedFields(Unrecognized(pps))
    /\ res.ok =>
          /\ FirstFailing(pps) = {}
          /\ Unrecognized(pps) = {}
          /\ \A i \in DOMAIN pps : res.val.fields[pps[i].field_name] = FieldOutcome(pps, i).val

\* C28: the parse of a record is ordered and all-or-nothing: the field
\* parsers run in declaration order and the error of the first that fails is
\* the error of the parse, also when the document has unrecognized keys; the
\* unrecognized-fields error is raised only when every field has parsed; an
\* object is returned only when every field has parsed and no key is
\* unrecognized, and its fields are what the field parsers returned.
ParseOrdered == ParsedObject => OrderedWith(PropertyParsers(typ))

\* a document with an unrecognized key and without the required field a of
\* Two has been rejected with the error of the field
ParseOrderedWitness ==
    /\ ParsedObject
    /\ typ = TClass("Two")
    /\ id_a \notin DOMAIN json.d
    /\ id_extra \in DOMAIN json.d
    /\ res = MissingProperty(id_a, json)

(***************************************************************************)
(* Properties of a union inside an alternative of a union.                 *)
(***************************************************************************)
\* r is the aggregate failure of a union
IsNoMatch(r) == ~r.ok /\ "what" \in DOMAIN r.exc /\ r.exc.what = "could not be instantiated"

\* r is the aggregate failure of a union other than the one being parsed
InnerNoMatch(r) == IsNoMatch(r) /\ r.exc.member_types # UnionParser.member_types

\* C29: the aggregate failure of a union is a JsonKeyError, and an
\* alternative that fails with the aggregate failure of a union inside it (as
\* the alternative itself under an annotation, as a record field or as a
\* container item) is a mismatch of that alternative: the outer union goes on
\* to its next alternative and never ends with the failure of the inner one.
InnerNoMatchSwallowed ==
    pc \in {"trying", "done"} =>
        /\ \A i \in DOMAIN tried :
              InnerNoMatch(tried[i]) =>
                  /\ tried[i].exc.cls = "JsonKeyError"
                  /\ \/ pc = "trying" /\ idx > i
                     \/ pc = "done" /\ Len(tried) > i
                     \/ pc = "done" /\ res = NoMatch(UnionParser.member_types, json)
        /\ pc = "done" => ~InnerNoMatch(res)
        /\ (pc = "done" /\ IsNoMatch(res)) => IsShapeError(res)

\* an outer union whose first alternative failed with the aggregate failure
\* of an inner union has returned the value of its second alternative
InnerNoMatchSwallowedWitness ==
    /\ pc = "done"
    /\ res.ok
    /\ Len(tried) = 2
    /\ InnerNoMatch(tried[1])
    /\ tried[2] = res

(***************************************************************************)
(* Properties of the scalar parsers under a union.                         *)
(***************************************************************************)
\* the union resolved to its first alternative with this value
FirstAlternative(v) == Len(tried) = 1 /\ tried[1] = Ok(v) /\ res = Ok(v)

\* C30: the number parsers overlap and the string and boolean parsers do
\* not: under Union[int, bool] a boolean resolves to the int alternative as 1
\* or 0, under Union[float, int] an integer resolves to the float alternative,
\* and under Union[str, bool] the string parser accepts strings only and the
\* boolean parser booleans only, each returning its input.
ScalarOverlap ==
    pc = "done" =>
        /\ (typ = TUnion(<<TInt, TBool>>) /\ json.k = "bool") =>
              FirstAlternative(PInt(IF json.b THEN 1 ELSE 0))
        /\ (typ = TUnion(<<TFloat, TInt>>) /\ json.k = "int") =>
              FirstAlternative(PFloat(2 * json.i))
        /\ typ = TUnion(<<TStr, TBool>>) =>
              /\ tried[1] = (IF json.k = "str" THEN Ok(json) ELSE JsonTypeError(TStr, json))
              /\ Len(tried) = 2 =>
                    tried[2] = (IF json.k = "bool" THEN Ok(json) ELSE JsonTypeError(TBool, json))
              /\ res.ok <=> json.k \in {"str", "bool"}

\* Union[int, bool] has returned the integer 1 for the boolean true
ScalarOverlapWitness ==
    /\ pc = "done"
    /\ typ = TUnion(<<TInt, TBool>>)
    /\ json = PBool(TRUE)
    /\ res = Ok(PInt(1))
    /\ Len(tried) = 1

====
